---- MODULE Spec2Model ----
(***************************************************************************)
(* Verification model of the XRP report bots:                              *)
(*   src/xrp_report.py                 (script "xrp_report")               *)
(*   src/combined_xrp_intel_report.py  (script "combined")                 *)
(*   src/crypto-intel.py               (script "crypto-intel")             *)
(*                                                                         *)
(* Numbers.  Python floats are modelled by exact arithmetic:               *)
(*   - indicator values are records [nan, v] (NaN compares False);         *)
(*   - quotients are rationals [n, d] with d > 0, or the IEEE specials;    *)
(*   - prices are integers in units of 0.00001 USD, levels derived from    *)
(*     them by a factor with three decimals are in units of 0.00000001.    *)
(* Rounding error of binary floating point is outside the model.           *)
(***************************************************************************)
EXTENDS Integers, Sequences, FiniteSets, TLC

VARIABLES
    script,          \* which script's pass is running
    ran,             \* the steps of the pass that have run
    price,           \* price / live_price of the pass
    prev_close,      \* df["close"].iloc[-2]
    indicators,      \* xrp_report.compute_indicators() result
    i,               \* combined compute_indicators() result
    bullish,         \* xrp_report: published bullish probability
    bearish,         \* xrp_report: published bearish probability
    bull,            \* combined, Discord report: bullish probability
    bear,            \* combined, Discord report: bearish probability
    teaser_bull,     \* combined, X teaser: bullish probability
    volume,          \* df["volume"], oldest first
    vol,             \* xrp_report.detect_volume_spike() result
    vol_text,        \* combined volume_spike() result
    vol_ratio,       \* combined build_discord_message / build_x_teaser: vol_ratio
    df,              \* the candles [high, low, close], oldest first
    bb_width,        \* combined i["bb_width"], in thousandths
    levels,          \* combined dynamic_levels() result
    triggers,        \* combined flips_triggers() result
    caution,         \* combined caution_level() result
    xrp_levels,      \* xrp_report.compute_dynamic_levels() result
    flips,           \* xrp_report.compose_and_send_report: flips
    smc,             \* combined: what the smartmoneyconcepts calls return
    market_struct,   \* combined compute_market_structure() result
    rsi_series,      \* xrp_report indicators["rsi_series"], oldest first
    lows_idx,        \* xrp_report.detect_rsi_divergence: lows_idx
    highs_idx,       \* xrp_report.detect_rsi_divergence: highs_idx
    div,             \* xrp_report.detect_rsi_divergence() result
    outcome,         \* how a whole pass of main() ended
    csv,             \* the rows of CSV_FILE, in file order
    stored,          \* the rows of CSV_FILE when the latest run began
    fetched,         \* what the latest run fetched
    series,          \* combined main(): the df it merges, saves and analyses
    now,             \* xrp_report: utcnow(), in days
    runs,            \* the runs of main() so far
    final_messages,  \* crypto-intel: the list handed to send_batched
    sent,            \* crypto-intel: the payloads passed to send_raw, in order
    section,         \* crypto-intel: the section the script is at
    messages,        \* crypto-intel: messages, the parts collected for batching
    chain,           \* crypto-intel whale loop: position in datasets
    data,            \* crypto-intel whale loop: the feed of the latest chain
    biggest_transfer,   \* crypto-intel whale section: biggest_transfer
    any_million_found,  \* crypto-intel whale section: any_million_found
    qualifying,      \* the million+ amounts of all the feeds read so far
    at,              \* main(): the statement the run is at
    events,          \* main(): file writes, checks and sends so far, in order
    failing,         \* main(): the external calls that fail in this run
    old_rows         \* combined main(): old_df, what was loaded from CSV_FILE

structVars == << smc, market_struct >>

\* the state of the passes that are not about score, volume or levels
scanVars == << rsi_series, lows_idx, highs_idx, div >>

histVars == << csv, stored, fetched, series, now, runs >>

batchVars == << final_messages, sent >>

whaleVars == << section, messages, chain, data, biggest_transfer, any_million_found, qualifying >>

mainVars == << at, events, failing, old_rows >>

intelVars == << structVars, scanVars, outcome, histVars, batchVars, whaleVars, mainVars >>

vars == << script, ran, price, prev_close, indicators, i,
           bullish, bearish, bull, bear, teaser_bull,
           volume, vol, vol_text, vol_ratio,
           df, bb_width, levels, triggers, caution, xrp_levels, flips,
           intelVars >>

volumeVars == << volume, vol, vol_text >>

levelVars == << df, bb_width, levels, triggers, caution, xrp_levels, flips >>

scoreVars == << price, prev_close, indicators, i,
                bullish, bearish, bull, bear, teaser_bull >>

----------------------------------------------------------------------------
(* Float values and comparisons *)

NaN == [nan |-> TRUE, v |-> 0]
Num(x) == [nan |-> FALSE, v |-> x]

\* a > b on floats: False when either side is NaN
Gt(a, b) == ~a.nan /\ ~b.nan /\ a.v > b.v
\* a < b on floats: False when either side is NaN
Lt(a, b) == ~a.nan /\ ~b.nan /\ a.v < b.v

Max(a, b) == IF a >= b THEN a ELSE b
Min(a, b) == IF a <= b THEN a ELSE b

\* int(): truncation toward zero of the rational n/d, d > 0
Trunc(n, d) == IF n >= 0 THEN n \div d ELSE -((-n) \div d)

RECURSIVE GCD(_, _)
GCD(a, b) == IF b = 0 THEN a ELSE GCD(b, a % b)

\* rationals n/d with d > 0
Rat(n, d) == [n |-> n, d |-> d]
\* n/d in lowest terms, for n >= 0 and d > 0
Reduced(n, d) == LET g == GCD(n, d) IN Rat(n \div g, d \div g)
RatIsInt(r) == r.n % r.d = 0
RatGe(r, k) == r.n >= k * r.d
RatLe(r, k) == r.n <= k * r.d
RatGt(r, k) == r.n > k * r.d
RatEq(r, s) == r.n * s.d = s.n * r.d
RatAdd(r, s) == Rat(r.n * s.d + s.n * r.d, r.d * s.d)

\* IEEE results of a float division: a finite quotient n/d (d > 0), NaN or
\* +inf; divzero records that the divisor was zero (numpy warns, never raises)
FNum(n, d) == [kind |-> "num", n |-> n, d |-> d, divzero |-> FALSE]
FNaN(dz) == [kind |-> "nan", n |-> 0, d |-> 1, divzero |-> dz]
FInf(dz) == [kind |-> "inf", n |-> 0, d |-> 1, divzero |-> dz]

\* x / m for a non-negative integer x and a float m that is finite
\* non-negative or NaN
FloatDiv(x, m) ==
    IF m.kind = "nan" THEN FNaN(FALSE)
    ELSE IF m.n = 0 THEN (IF x = 0 THEN FNaN(TRUE) ELSE FInf(TRUE))
    ELSE LET q == Reduced(x * m.d, m.n) IN FNum(q.n, q.d)

\* f >= k/100 on floats: False for NaN, True for +inf
FGeHundredths(f, k) ==
    \/ f.kind = "inf"
    \/ f.kind = "num" /\ f.n * 100 >= k * f.d

RECURSIVE SumSeq(_)
SumSeq(s) == IF s = << >> THEN 0 ELSE Head(s) + SumSeq(Tail(s))

\* s.tail(k)
TailN(s, k) == IF Len(s) <= k THEN s ELSE SubSeq(s, Len(s) - k + 1, Len(s))

----------------------------------------------------------------------------
(* Bull / bear probability *)

\* xrp_report.compose_and_send_report: bullish and bearish are kept as two
\* counters, updated together and clamped separately.
compose_scores_bad(p, ind) ==
    LET b1 == IF Gt(Num(p), ind.ma50) THEN 15 ELSE -15
        b2 == IF Gt(ind.macd_line, ind.macd_signal) THEN 20 ELSE -20
        b3 == IF Lt(ind.rsi, Num(30)) THEN 10
              ELSE IF Gt(ind.rsi, Num(70)) THEN -10 ELSE 0
        b4 == IF Gt(ind.ma50, ind.ma200) THEN 5 ELSE 0
        up == 50 + b1 + b2 + b3 + b4
        dn == 50 - b1 - b2 - b3
    IN [bullish |-> Max(0, Min(100, up)), bearish |-> Max(0, Min(100, dn))]

compose_scores(p, ind) ==
    LET b1 == IF Gt(Num(p), ind.ma50) THEN 15 ELSE -15
        b2 == IF Gt(ind.macd_line, ind.macd_signal) THEN 20 ELSE -20
        b3 == IF Lt(ind.rsi, Num(30)) THEN 10
              ELSE IF Gt(ind.rsi, Num(70)) THEN -10 ELSE 0
        b4 == IF Gt(ind.ma50, ind.ma200) THEN 5 ELSE 0
        up == 50 + b1 + b2 + b3 + b4
        dn == 50 - b1 - b2 - b3 - b4
    IN [bullish |-> Max(0, Min(100, up)), bearish |-> Max(0, Min(100, dn))]

\* price_change_1h = ((price / df["close"].iloc[-2]) - 1) * 100 for
\* non-negative prices: a finite quotient, or NaN (0/0) or +inf (p/0)
price_change(p, prev) ==
    IF prev = 0 THEN (IF p = 0 THEN FNaN(TRUE) ELSE FInf(TRUE))
    ELSE FNum((p - prev) * 100, prev)

\* the integer steps of bull_score shared by the Discord report and the teaser
base_steps(p, ii) ==
      (IF Gt(Num(p), ii.ema200) THEN 30 ELSE 0)
    + (IF Gt(ii.macd, ii.signal) THEN 25 ELSE 0)
    + (IF Lt(ii.rsi, Num(30)) THEN 20
       ELSE IF Gt(ii.rsi, Num(70)) THEN -20 ELSE 0)
    + (IF ii.hist_trend = "Increasing" THEN 15 ELSE 0)
    + (IF ii.bb_signal = "Oversold" THEN 10
       ELSE IF ii.bb_signal = "Overbought" THEN -10 ELSE 0)
    + (IF ii.stoch_signal = "Bullish Cross" THEN 15
       ELSE IF ii.stoch_signal = "Bearish Cross" THEN -15 ELSE 0)
    + (IF ii.obv_trend = "Rising" THEN 20
       ELSE IF ii.obv_trend = "Falling" THEN -20 ELSE 0)

\* the divergence steps, present in build_discord_message only
divergence_steps(ii) ==
      (IF ii.rsi_div = "Bullish Divergence" THEN 15
       ELSE IF ii.rsi_div = "Bearish Divergence" THEN -15 ELSE 0)
    + (IF ii.macd_div = "Bullish Divergence" THEN 15
       ELSE IF ii.macd_div = "Bearish Divergence" THEN -15 ELSE 0)

\* if price_change_1h > 0: bull_score += min(10, price_change_1h * 2)
\* as a numerator over pc.d
momentum_step(pc) ==
    IF pc.kind = "inf" THEN 10 * pc.d
    ELSE IF pc.kind = "num" /\ pc.n > 0
         THEN (IF 2 * pc.n >= 10 * pc.d THEN 10 * pc.d ELSE 2 * pc.n)
    ELSE 0

\* the ADX scaling and the clamp: steps is the integer part of bull_score,
\* pc the 1h price change; the result is the rational bull
finish_bull(steps, pc, adx_signal) ==
    LET d == pc.d
        raw == steps * d + momentum_step(pc)          \* bull_score * d
        scaled == IF adx_signal = "Strong Trend"
                  THEN (IF raw > 0 THEN Trunc(raw * 12, d * 10) * d
                        ELSE Trunc(raw * 8, d * 10) * d)
                  ELSE raw
        b == Min(100 * d, Max(0, 50 * d + scaled))
    IN Rat(b, d)

\* combined build_discord_message: bull and bear
discord_bull(p, prev, ii) ==
    LET b == finish_bull(base_steps(p, ii) + divergence_steps(ii),
                         price_change(p, prev), ii.adx_signal)
    IN [bull |-> b, bear |-> Rat(100 * b.d - b.n, b.d)]

\* combined build_x_teaser: bull
x_teaser_bull(p, prev, ii) ==
    finish_bull(base_steps(p, ii), price_change(p, prev), ii.adx_signal)

----------------------------------------------------------------------------
(* Volume surge *)

\* VOLUME_SPIKE_LEVELS, in hundredths of the average
VOLUME_SPIKE_CAUTION == 115
VOLUME_SPIKE_STRONG == 130
VOLUME_SPIKE_EXTREME == 150

\* the window of detect_volume_spike and of rolling(24)
VolumeWindow == 24

\* xrp_report.detect_volume_spike: the mean is taken over the last 24
\* volumes, or over all of them when there are fewer; ratio is 0 when the
\* mean is not positive; the tiers read the unrounded ratio
detect_volume_spike(v) ==
    LET w == IF Len(v) < VolumeWindow THEN v ELSE TailN(v, VolumeWindow)
        avg == IF Len(w) > 0 THEN Rat(SumSeq(w), Len(w)) ELSE Rat(0, 1)
        last == v[Len(v)]
        ratio == IF avg.n > 0 THEN Reduced(last * avg.d, avg.n) ELSE Rat(0, 1)
        level == IF RatGe(Rat(ratio.n * 100, ratio.d), VOLUME_SPIKE_EXTREME) THEN "EXTREME"
                 ELSE IF RatGe(Rat(ratio.n * 100, ratio.d), VOLUME_SPIKE_STRONG) THEN "STRONG"
                 ELSE IF RatGe(Rat(ratio.n * 100, ratio.d), VOLUME_SPIKE_CAUTION) THEN "CAUTION"
                 ELSE "None"
    IN [ratio |-> ratio, avg |-> avg, last |-> last, level |-> level]

\* df["volume"].rolling(24).mean().iloc[-1]: NaN until 24 values exist
rolling_mean(v) ==
    IF Len(v) < VolumeWindow THEN FNaN(FALSE)
    ELSE FNum(SumSeq(TailN(v, VolumeWindow)), VolumeWindow)

\* df["volume"].iloc[-1] / df["volume"].rolling(24).mean().iloc[-1]
volume_ratio(v) == FloatDiv(v[Len(v)], rolling_mean(v))

\* round(ratio, 2) in hundredths: the values a float rounding can give.  An
\* exact tie has no exact binary representation, so either neighbour can
\* come out.
Round2(f) ==
    LET q == (100 * f.n) \div f.d
        rem == (100 * f.n) % f.d
    IN IF 2 * rem < f.d THEN {q}
       ELSE IF 2 * rem > f.d THEN {q + 1}
       ELSE {q, q + 1}

\* the tier volume_spike gives a rounded ratio
spike_tier(f) ==
    IF FGeHundredths(f, 150) THEN "Extreme Surge"
    ELSE IF FGeHundredths(f, 130) THEN "Strong Surge"
    ELSE IF FGeHundredths(f, 115) THEN "Elevated"
    ELSE "Normal"

\* combined volume_spike: the results it can give (one, except on a tie of
\* the rounding); the tiers read the ratio rounded to two decimals
volume_spike(v) ==
    LET f == volume_ratio(v)
        rounded == IF f.kind = "num" THEN {FNum(h, 100) : h \in Round2(f)} ELSE {f}
    IN {[tier |-> spike_tier(r), ratio |-> r] : r \in rounded}

----------------------------------------------------------------------------
(* Dynamic levels, triggers and caution *)

MaxOf(S) == CHOOSE x \in S : \A y \in S : y <= x
MinOf(S) == CHOOSE x \in S : \A y \in S : x <= y

\* the index range of d.tail(k)
TailIdx(d, k) == (IF Len(d) > k THEN Len(d) - k + 1 ELSE 1)..Len(d)

HighMax(d, k) == MaxOf({d[j].high : j \in TailIdx(d, k)})
LowMin(d, k) == MinOf({d[j].low : j \in TailIdx(d, k)})
CloseMax(d, k) == MaxOf({d[j].close : j \in TailIdx(d, k)})
CloseMin(d, k) == MinOf({d[j].close : j \in TailIdx(d, k)})

\* tail(24) and tail(168)
DayWindow == 24
WeekWindow == 168

\* the fallback range 0.0001 USD, in price units of 0.00001 USD
Epsilon == 10

\* drop_from_week > 0.10, with drop_from_week = (weekly_high - price) /
\* weekly_high if weekly_high > 0 else 0
crash_detected(weekly_high, p) ==
    weekly_high > 0 /\ (weekly_high - p) * 10 > weekly_high

\* r = high - low if high > low else 0.0001
level_range(high, low) == IF high > low THEN high - low ELSE Epsilon

\* the level dictionary of a chosen range; levels are in thousandths of a
\* price unit
level_set(low, r, mode) ==
    [breakout_weak    |-> low * 1000 + r * 382,
     breakout_strong  |-> low * 1000 + r * 618,
     breakdown_weak   |-> low * 1000 + r * 236,
     breakdown_strong |-> low * 1000 + r * 118,
     danger           |-> low * 1000,
     range_mode       |-> mode]

\* mutants of dynamic_levels: the 24h range already at a drop of exactly
\* 10%; no fallback for an empty range; the label not following the range
dynamic_levels_at_10(d) ==
    LET p == d[Len(d)].close
        weekly_high == HighMax(d, WeekWindow)
        crash == weekly_high > 0 /\ (weekly_high - p) * 10 >= weekly_high
        high == IF crash THEN HighMax(d, DayWindow) ELSE weekly_high
        low == IF crash THEN LowMin(d, DayWindow) ELSE LowMin(d, WeekWindow)
    IN level_set(low, level_range(high, low),
                 IF crash THEN "24h crash mode" ELSE "7-day")

dynamic_levels_no_floor(d) ==
    LET p == d[Len(d)].close
        weekly_high == HighMax(d, WeekWindow)
        crash == crash_detected(weekly_high, p)
        high == IF crash THEN HighMax(d, DayWindow) ELSE weekly_high
        low == IF crash THEN LowMin(d, DayWindow) ELSE LowMin(d, WeekWindow)
    IN level_set(low, high - low, IF crash THEN "24h crash mode" ELSE "7-day")

\* combined dynamic_levels
dynamic_levels(d) ==
    LET p == d[Len(d)].close
        recent_high == HighMax(d, DayWindow)
        recent_low == LowMin(d, DayWindow)
        weekly_high == HighMax(d, WeekWindow)
        weekly_low == LowMin(d, WeekWindow)
        crash == crash_detected(weekly_high, p)
        high == IF crash THEN recent_high ELSE weekly_high
        low == IF crash THEN recent_low ELSE weekly_low
    IN level_set(low, level_range(high, low),
                 IF crash THEN "24h crash mode" ELSE "7-day")

\* combined flips_triggers: the list it builds, and the first entry it returns
flips_trigger_list(p, lv) ==
    (IF p * 1000 > lv.breakout_strong THEN << "Strong Bullish Breakout" >>
     ELSE IF p * 1000 > lv.breakout_weak THEN << "Bullish Breakout (Weak)" >>
     ELSE << >>)
    \o (IF p * 1000 < lv.breakdown_strong THEN << "Strong Bearish Breakdown" >>
        ELSE IF p * 1000 < lv.breakdown_weak THEN << "Bearish Breakdown (Weak)" >>
        ELSE << >>)
    \o (IF p * 1000 < lv.danger THEN << "Danger Zone" >> ELSE << >>)

\* mutant of flips_triggers: the last entry of the list is returned
flips_triggers_last(p, lv) ==
    LET t == flips_trigger_list(p, lv) IN IF t # << >> THEN t[Len(t)] ELSE "Stable"

flips_triggers(p, lv) ==
    LET t == flips_trigger_list(p, lv) IN IF t # << >> THEN t[1] ELSE "Stable"

\* abs(f) >= k on floats
FAbsGe(f, k) ==
    \/ f.kind = "inf"
    \/ f.kind = "num" /\ (IF f.n >= 0 THEN f.n ELSE -f.n) >= k * f.d

\* mutant of caution_level: the weak tier tested before the strong one
caution_level_weak_first(p, vr, lv, pc, bb) ==
    IF FGeHundredths(vr, 150) \/ p * 1000 < lv.danger \/ FAbsGe(pc, 5) \/ bb > 50
    THEN "Danger"
    ELSE IF FGeHundredths(vr, 115) \/ FAbsGe(pc, 2)
    THEN "Weak Caution"
    ELSE IF FGeHundredths(vr, 130) \/ p * 1000 > lv.breakout_strong \/ FAbsGe(pc, 3)
    THEN "Strong Caution"
    ELSE "Safe"

\* combined caution_level; bb is bb_width in thousandths
caution_level(p, vr, lv, pc, bb) ==
    IF FGeHundredths(vr, 150) \/ p * 1000 < lv.danger \/ FAbsGe(pc, 5) \/ bb > 50
    THEN "Danger"
    ELSE IF FGeHundredths(vr, 130) \/ p * 1000 > lv.breakout_strong \/ FAbsGe(pc, 3)
    THEN "Strong Caution"
    ELSE IF FGeHundredths(vr, 115) \/ FAbsGe(pc, 2)
    THEN "Weak Caution"
    ELSE "Safe"

\* mutant of compute_dynamic_levels: the high and low of the 24 closes
\* before the latest one
compute_dynamic_levels_prior(d, report_price) ==
    LET before == SubSeq(d, 1, Len(d) - 1)
        recent_high == CloseMax(before, DayWindow)
        recent_low == CloseMin(before, DayWindow)
    IN [recent_high |-> recent_high, recent_low |-> recent_low,
        breakout_weak    |-> recent_high * 1020,
        breakout_strong  |-> recent_high * 1060,
        breakdown_weak   |-> recent_low * 980,
        breakdown_strong |-> recent_low * 950,
        danger           |-> recent_low * 920]

\* xrp_report.compute_dynamic_levels; levels are in thousandths of a price unit
compute_dynamic_levels(d, report_price) ==
    LET recent_high == CloseMax(d, DayWindow)
        recent_low == CloseMin(d, DayWindow)
    IN [recent_high |-> recent_high, recent_low |-> recent_low,
        breakout_weak    |-> recent_high * 1020,
        breakout_strong  |-> recent_high * 1060,
        breakdown_weak   |-> recent_low * 980,
        breakdown_strong |-> recent_low * 950,
        danger           |-> recent_low * 920]

\* xrp_report.compose_and_send_report: flips
compose_flips(p, lv) ==
    (IF p * 1000 > lv.breakout_weak THEN << "Bullish breakout (weak)" >> ELSE << >>)
    \o (IF p * 1000 > lv.breakout_strong THEN << "Bullish breakout (strong)" >> ELSE << >>)
    \o (IF p * 1000 < lv.breakdown_weak THEN << "Bearish breakdown (weak)" >> ELSE << >>)
    \o (IF p * 1000 < lv.breakdown_strong THEN << "Bearish breakdown (strong)" >> ELSE << >>)
    \o (IF p * 1000 < lv.danger THEN << "DANGER: price below danger level" >> ELSE << >>)

----------------------------------------------------------------------------
(* Market structure (combined script) *)

\* highs.iloc[-1] > highs.iloc[-2] > highs.iloc[-3] on the rows of a frame
Rising(r, col) == Gt(r[3][col], r[2][col]) /\ Gt(r[2][col], r[1][col])
Falling(r, col) == Lt(r[3][col], r[2][col]) /\ Lt(r[2][col], r[1][col])

\* compute_market_structure(df), given what the two library calls return:
\* s.fails (one of them, or a column lookup, raises), the BOS and CHOCH
\* flags of the latest candle (0: NaN) and the swing frame s.swings
compute_market_structure(s) ==
    IF s.fails THEN "Unavailable"
    ELSE IF s.BOS = 1 THEN "Bullish BOS"
    ELSE IF s.BOS = -1 THEN "Bearish BOS"
    ELSE IF s.CHOCH = 1 THEN "Bullish CHOCH"
    ELSE IF s.CHOCH = -1 THEN "Bearish CHOCH"
    ELSE LET recent_swings == TailN(s.swings, 3)
         IN IF Len(recent_swings) >= 3
            THEN IF Rising(recent_swings, "high") /\ Rising(recent_swings, "low")
                     THEN "Bullish Structure"
                 ELSE IF Falling(recent_swings, "high") /\ Falling(recent_swings, "low")
                     THEN "Bearish Structure"
                 ELSE "Ranging Structure"
            ELSE "No Clear Structure"

----------------------------------------------------------------------------
(* RSI divergence (xrp_report) *)

\* window = 3
ScanWindow == 3
\* if length < 8: return None
MinDivergenceCandles == 8

\* the mutation of scan_range that starts and ends one candle too far out
scan_range_wide(length) ==
    [k \in 1..Max(0, length - 2 * ScanWindow + 2) |-> ScanWindow + k - 2]

\* range(window, length - window), as a sequence of 0-based indexes
scan_range(length) ==
    [k \in 1..Max(0, length - 2 * ScanWindow) |-> ScanWindow + k - 1]

\* price.iloc[j] of the close column
PriceAt(d, j) == d[j + 1].close

\* the indexes the lows loop appends
local_lows(d) ==
    SelectSeq(scan_range(Len(d)),
              LAMBDA j : PriceAt(d, j) < PriceAt(d, j - 1) /\ PriceAt(d, j) < PriceAt(d, j + 1))

\* the indexes the highs loop appends
local_highs(d) ==
    SelectSeq(scan_range(Len(d)),
              LAMBDA j : PriceAt(d, j) > PriceAt(d, j - 1) /\ PriceAt(d, j) > PriceAt(d, j + 1))

\* detect_rsi_divergence(df, rsi_series): the return value (kind) with the
\* two index lists as far as the call gets (steps: the loops it ran)
detect_rsi_divergence(d, r) ==
    IF Len(d) < MinDivergenceCandles
    THEN [kind |-> "None", lows_idx |-> << >>, highs_idx |-> << >>, steps |-> {}]
    ELSE LET lows == local_lows(d)
         IN IF Len(lows) < 2
            THEN [kind |-> "None", lows_idx |-> lows, highs_idx |-> << >>,
                  steps |-> {"lows_scan"}]
            ELSE LET i1 == lows[Len(lows) - 1]
                     i2 == lows[Len(lows)]
                 IN IF PriceAt(d, i2) < PriceAt(d, i1) /\ Gt(r[i2 + 1], r[i1 + 1])
                    THEN [kind |-> "bullish", lows_idx |-> lows, highs_idx |-> << >>,
                          steps |-> {"lows_scan"}]
                    ELSE LET highs == local_highs(d)
                             j1 == highs[Len(highs) - 1]
                             j2 == highs[Len(highs)]
                         IN [kind |-> IF /\ Len(highs) >= 2
                                         /\ PriceAt(d, j2) > PriceAt(d, j1)
                                         /\ Lt(r[j2 + 1], r[j1 + 1])
                                      THEN "bearish" ELSE "None",
                             lows_idx |-> lows, highs_idx |-> highs,
                             steps |-> {"lows_scan", "highs_scan"}]

----------------------------------------------------------------------------
(* The candle history file *)

\* timedelta(days=30)
RetentionDays == 30

\* the mutation of drop_duplicates that drops nothing
keep_all_rows(rows) == rows

\* DataFrame.drop_duplicates(subset="open_time"): the first row of every
\* open_time stays, in place
drop_duplicates(rows) ==
    LET first == SelectSeq([k \in 1..Len(rows) |-> k],
                           LAMBDA k : \A j \in 1..(k - 1) :
                                         rows[j].open_time # rows[k].open_time)
    IN [m \in 1..Len(first) |-> rows[first[m]]]

\* DataFrame.sort_values("open_time")
sort_values(rows) == SortSeq(rows, LAMBDA a, b : a.open_time < b.open_time)

\* combined main(): df = concat([old_df, fresh_df]).drop_duplicates(...)
\*                       .sort_values("open_time").reset_index(drop=True)
merge_history(old_df, fresh_df) == sort_values(drop_duplicates(old_df \o fresh_df))

\* xrp_report.update_history_csv(row) at time t: append unless the
\* timestamp is stored, then drop what is older than the cutoff
update_history_csv(hist, row, t) ==
    LET appended == IF \E k \in 1..Len(hist) : hist[k].timestamp = row.timestamp
                    THEN hist ELSE Append(hist, row)
    IN SelectSeq(appended, LAMBDA r : r.timestamp >= t - RetentionDays)

----------------------------------------------------------------------------
(* Discord batching (crypto-intel.py) *)

DISCORD_CHUNK_LIMIT == 1800

\* A string is its length, whether it holds anything but whitespace, and
\* the ids of the messages it is made of
EmptyString == [len |-> 0, text |-> FALSE, parts |-> << >>]
\* m + "\n\n"
WithNewlines(m) == [len |-> m.len + 2, text |-> m.text, parts |-> << m.id >>]
Concat(a, b) == [len |-> a.len + b.len, text |-> a.text \/ b.text, parts |-> a.parts \o b.parts]

\* the mutation of batch_step that starts the new chunk without sending
\* the full one
batch_step_drop(st, m) ==
    IF st.chunk.len + m.len + 2 > DISCORD_CHUNK_LIMIT
    THEN [chunk |-> WithNewlines(m), sent |-> st.sent]
    ELSE [chunk |-> Concat(st.chunk, WithNewlines(m)), sent |-> st.sent]

\* one iteration of the loop of send_batched, on st = [chunk, sent]
batch_step(st, m) ==
    IF st.chunk.len + m.len + 2 > DISCORD_CHUNK_LIMIT
    THEN [chunk |-> WithNewlines(m), sent |-> Append(st.sent, st.chunk)]
    ELSE [chunk |-> Concat(st.chunk, WithNewlines(m)), sent |-> st.sent]

RECURSIVE batch_loop(_, _)
batch_loop(st, msgs) ==
    IF msgs = << >> THEN st ELSE batch_loop(batch_step(st, Head(msgs)), Tail(msgs))

\* send_batched(messages): the calls of send_raw it adds to those made before
send_batched(before, msgs) ==
    LET st == batch_loop([chunk |-> EmptyString, sent |-> before], msgs)
    IN IF st.chunk.text THEN Append(st.sent, st.chunk) ELSE st.sent

----------------------------------------------------------------------------
(* Whale tracker (crypto-intel.py) *)

\* datasets, in iteration order
Chains == << "Bitcoin", "Ethereum", "XRP", "Solana", "TRON", "Cardano", "Polygon",
             "Tether USDT" >>

MIN_USD == 1000000
FALLBACK_MIN_USD == 100000
\* for amt, tx in transfers[:5]
TopTransfers == 5

\* sorted(small_transfers, key=lambda x: -x[0])
SortedDescending(amts) == SortSeq(amts, LAMBDA a, b : a > b)

\* the transfers list of one chain: the million+ amounts in feed order, or,
\* when there is none, the 100k+ amounts, largest first
chain_transfers(feed) ==
    LET million == SelectSeq(feed, LAMBDA amt : amt >= MIN_USD)
    IN IF million # << >> THEN million
       ELSE SortedDescending(SelectSeq(feed, LAMBDA amt : amt >= FALLBACK_MIN_USD))

\* the loop over transfers[:5]: `if amt > biggest_transfer["amount"]`
RECURSIVE update_biggest(_, _, _)
update_biggest(biggest, shown, c) ==
    IF shown = << >> THEN biggest
    ELSE update_biggest(IF Head(shown) > biggest.amount
                        THEN [amount |-> Head(shown), chain |-> c] ELSE biggest,
                        Tail(shown), c)

\* one iteration of `for chain, url in datasets.items()` on the feed read
whale_chain(biggest, c, feed) ==
    LET transfers == chain_transfers(feed)
    IN update_biggest(biggest, SubSeq(transfers, 1, Min(TopTransfers, Len(transfers))), c)

----------------------------------------------------------------------------
(* Bounds and inputs *)

\* the longest xrp_report history the passes are run on
MaxCandles == 26

\* main() of the combined script reports only on 300 candles or more
MinReportCandles == 300

\* xrp_report.multi_timeframe_confirmations reads rsi_series.iloc[-3]: with
\* fewer candles compose_and_send_report raises before it derives levels
MinConfirmCandles == 3

FloatInputs == {NaN, Num(1), Num(3)}
RsiInputs == {NaN, Num(-1000), Num(29), Num(30), Num(50), Num(70), Num(71), Num(1000)}
PriceInputs == {396, 400, 401, 404, 420, 440}

XrpIndicators ==
    [ma50 : {NaN, Num(300), Num(500)}, ma200 : {Num(200), Num(600)},
     macd_line : FloatInputs, macd_signal : {NaN, Num(2)}, rsi : RsiInputs]

CombinedIndicators ==
    [ema200 : {NaN, Num(300), Num(500)},
     macd : FloatInputs, signal : {Num(2)},
     rsi : {NaN, Num(-1000), Num(29), Num(50), Num(71)},
     hist_trend : {"Increasing", "Decreasing"},
     bb_signal : {"Overbought", "Oversold", "Neutral"},
     stoch_signal : {"Bullish Cross", "Bearish Cross", "Neutral"},
     obv_trend : {"Rising", "Falling"},
     rsi_div : {"Bullish Divergence", "Bearish Divergence", "No Divergence"},
     macd_div : {"Bullish Divergence", "Bearish Divergence", "No Divergence"},
     adx_signal : {"Strong Trend", "Neutral"}]

NoXrpIndicators ==
    [ma50 |-> NaN, ma200 |-> NaN, macd_line |-> NaN, macd_signal |-> NaN, rsi |-> NaN]

NoCombinedIndicators ==
    [ema200 |-> NaN, macd |-> NaN, signal |-> NaN, rsi |-> NaN,
     hist_trend |-> "Decreasing", bb_signal |-> "Neutral",
     stoch_signal |-> "Neutral", obv_trend |-> "Falling",
     rsi_div |-> "No Divergence", macd_div |-> "No Divergence",
     adx_signal |-> "Neutral"]

\* the history lengths of a pass: xrp_report runs on any non-empty fetch,
\* the combined script only on MinReportCandles or more
XrpLengths == {1, 2, 3} \cup (23..MaxCandles)
CombinedLengths == {MinReportCandles, MinReportCandles + 1}

\* Volume columns: candles older than the window hold `old`; inside the
\* window every candle holds `base`, except the latest (`last`) and the one
\* before it, which balances the window mean to exactly `base`.
VolumeColumn(n, base, last, old) ==
    [k \in 1..n |->
        IF k = n THEN last
        ELSE IF k = n - 1 THEN 2 * base - last
        ELSE IF k > n - VolumeWindow THEN base
        ELSE old]

LastVolumes ==
    {0, 1000000, 1144999, 1149999, 1150000, 1299999, 1300000,
     1499999, 1500000, 2000000}

VolumeInputs(lengths) ==
    { VolumeColumn(n, 1000000, last, old) :
        n \in lengths \ {1}, last \in LastVolumes, old \in {0, 3000000} }
    \cup { [k \in 1..n |-> 0] : n \in lengths }
    \cup { [k \in 1..n |-> last] : n \in lengths \cap {1}, last \in LastVolumes }

Candle(h, l, c) == [high |-> h, low |-> l, close |-> c]

\* Candle columns of the combined script: `old` beyond the 168-candle
\* window, `week` inside it, `day` inside the 24-candle window, then `last`
CandleColumn(n, old, week, day, last) ==
    [k \in 1..n |->
        IF k = n THEN last
        ELSE IF k > n - DayWindow THEN day
        ELSE IF k > n - WeekWindow THEN week
        ELSE old]

LastPrices == {140000, 160000, 179999, 180000, 190000, 200000, 210000}

CombinedCandleInputs ==
    { CandleColumn(n, old, week, day, Candle(p + wick, p, p)) :
        n \in CombinedLengths,
        old \in {Candle(300000, 100000, 200000), Candle(200000, 200000, 200000)},
        week \in {Candle(200000, 150000, 190000), Candle(200000, 199995, 200000),
                  Candle(200000, 200000, 200000)},
        day \in {Candle(180000, 170000, 175000), Candle(200000, 199995, 199995),
                 Candle(200000, 200000, 200000), Candle(161000, 159000, 160000)},
        p \in LastPrices, wick \in {0, 5} }
    \cup { [k \in 1..n |-> Candle(0, 0, 0)] : n \in CombinedLengths }

\* Close columns of xrp_report (fetch_30d_hourly sets high = low = close):
\* `old` beyond the 24-candle window, `a` and `b` alternating inside it,
\* then the live price main() injects into the last row
CloseColumn(n, old, a, b, p) ==
    [k \in 1..n |->
        IF k = n THEN Candle(p, p, p)
        ELSE IF k > n - DayWindow THEN (IF k % 2 = 0 THEN Candle(a, a, a) ELSE Candle(b, b, b))
        ELSE Candle(old, old, old)]

XrpCandleInputs ==
    { CloseColumn(n, old, a, b, p) :
        n \in XrpLengths, old \in {100000, 300000},
        a \in {180000, 200000}, b \in {180000, 200000}, p \in LastPrices }
    \cup { [k \in 1..n |-> Candle(0, 0, 0)] : n \in XrpLengths }

VolRatioInputs ==
    {FNaN(TRUE), FNum(1, 1), FNum(57, 50), FNum(23, 20), FNum(129, 100),
     FNum(13, 10), FNum(149, 100), FNum(3, 2)}

BbWidthInputs == {40, 50, 60}

\* Whole passes: xrp_report on 1, 2, 3, 5 and more candles, the combined
\* script on either side of MinReportCandles
PassXrpCandles ==
    { CloseColumn(n, 100000, a, b, p) :
        n \in XrpLengths \cup {5},
        a \in {180000, 200000}, b \in {180000, 200000}, p \in LastPrices }
PassCombinedCandles ==
    { CandleColumn(n, Candle(300000, 100000, 200000), Candle(200000, 150000, 190000),
                   day, Candle(p, p, p)) :
        n \in {1, 2, 5, MinReportCandles - 1} \cup CombinedLengths,
        day \in {Candle(180000, 170000, 175000), Candle(161000, 159000, 160000)},
        p \in LastPrices }
PassXrpIndicators ==
    { x \in XrpIndicators : x.ma200 = Num(200) /\ x.macd_signal = Num(2)
                            /\ x.rsi \in {NaN, Num(29), Num(71)} }
PassCombinedIndicators ==
    { x \in CombinedIndicators :
        /\ x.ema200 = Num(300) /\ x.macd = Num(3) /\ x.rsi \in {NaN, Num(71)}
        /\ x.bb_signal = "Neutral" /\ x.stoch_signal = "Neutral"
        /\ x.rsi_div = "No Divergence" /\ x.macd_div = "No Divergence" }

\* the longest feed of a chain
MaxFeedLen == 6

\* Feeds (the amount_usd of each transfer, in feed order): short ones, and
\* long ones that hold `a` throughout and `b` last
Amounts == {50000, 500000, 1000000, 2000000, 3000000}
LongFeed(a, b) == [k \in 1..MaxFeedLen |-> IF k = MaxFeedLen THEN b ELSE a]
Feeds ==
    { << >> } \cup [1..1 -> Amounts] \cup [1..2 -> Amounts]
    \cup { LongFeed(1000000, 3000000), LongFeed(3000000, 1000000),
           LongFeed(200000, 500000), LongFeed(2000000, 2000000) }

NoTransfer == [amount |-> 0, chain |-> "None"]

\* the longest list send_batched is run on
MaxMessages == 3

\* message lengths around DISCORD_CHUNK_LIMIT; the empty message has no
\* text, and neither has the message of three spaces
MessageLengths == {0, 1, 900, 1798, 1799, 2500}
MessageKinds ==
    { [len |-> n, text |-> n > 0] : n \in MessageLengths } \cup { [len |-> 3, text |-> FALSE] }
MessageLists ==
    UNION { { [k \in 1..n |-> [id |-> k, len |-> f[k].len, text |-> f[k].text]] :
                f \in [1..n -> MessageKinds] } : n \in 0..MaxMessages }

\* the runs of main() a history is followed through
MaxRuns == 3

\* Fetched batches: `n` hourly candles from open_time `a` on, all closing at
\* `c`; short ones, and one long enough for the combined report, which
\* closes elsewhere
Batch(a, n, c) == [k \in 1..n |-> [open_time |-> a + k - 1, close |-> c]]
FreshBatches ==
    { Batch(a, n, 1) : a \in {1, 2}, n \in {1, 2} }
    \cup { Batch(2, MinReportCandles, 2) }

\* the rows xrp_report.main() hands to update_history_csv at time t
LastRows(t) == [timestamp : {t - 1, t} \cap Nat, close : {1, 2}]

\* the longest close column detect_rsi_divergence is run on
MaxScanCandles == 11

\* Close columns for the scan: the two candles at either end are never read
\* by the loops and hold 2; the others hold any of three prices
ScanLengths == {1, 5, 6} \cup (7..MaxScanCandles)
ScanColumns ==
    UNION { { [k \in 1..n |-> IF k <= 2 \/ k > n - 2 THEN Candle(2, 2, 2)
                               ELSE Candle(f[k], f[k], f[k])] :
                f \in [3..(n - 2) -> {1, 2, 3}] } : n \in ScanLengths }

\* RSI columns: undefined, rising, falling, or moving with the price
RsiColumns(d) ==
    { [k \in 1..Len(d) |-> NaN], [k \in 1..Len(d) |-> Num(k)],
      [k \in 1..Len(d) |-> Num(0 - k)], [k \in 1..Len(d) |-> Num(d[k].close)] }

\* what smc.swing_highs_lows / smc.bos_choch hand to compute_market_structure
SwingLengths == {0, 2, 3, 4}
SwingRow == [high : {NaN, Num(1), Num(2), Num(3)}, low : {Num(1), Num(2), Num(3)}]
SwingFrames ==
    UNION { [1..n -> SwingRow] : n \in SwingLengths \ {4} }
    \cup { << [high |-> Num(2), low |-> Num(2)] >> \o f : f \in [1..3 -> SwingRow] }
SmcInputs ==
    [fails : BOOLEAN, BOS : {1, -1, 0}, CHOCH : {1, -1, 0}, swings : SwingFrames]
NoSmc == [fails |-> FALSE, BOS |-> 0, CHOCH |-> 0, swings |-> << >>]

----------------------------------------------------------------------------
(* A pass: the state before it, and what it leaves alone *)

NoLevels == level_set(0, 0, "7-day")
NoXrpLevels ==
    [recent_high |-> 0, recent_low |-> 0, breakout_weak |-> 0, breakout_strong |-> 0,
     breakdown_weak |-> 0, breakdown_strong |-> 0, danger |-> 0]

\* nothing computed yet
NoOutputs ==
    /\ ran = {}
    /\ bullish = 50 /\ bearish = 50
    /\ bull = Rat(0, 1) /\ bear = Rat(0, 1) /\ teaser_bull = Rat(0, 1)
    /\ vol = [ratio |-> Rat(0, 1), avg |-> Rat(0, 1), last |-> 0, level |-> "None"]
    /\ vol_text = [tier |-> "Normal", ratio |-> FNaN(FALSE)]
    /\ levels = NoLevels /\ triggers = "Stable" /\ caution = "Safe"
    /\ xrp_levels = NoXrpLevels /\ flips = << >>

\* the inputs a pass does not read
IdleIndicators == indicators = NoXrpIndicators /\ i = NoCombinedIndicators
IdleVolume == volume = << 0 >>
IdleCandles == df = << Candle(0, 0, 0) >> /\ bb_width = 0
IdleStructure == smc = NoSmc /\ market_struct = "None"
IdleScan == rsi_series = << NaN >> /\ lows_idx = << >> /\ highs_idx = << >> /\ div = "None"
IdleHistory ==
    /\ csv = << >> /\ stored = << >> /\ fetched = << >> /\ series = << >>
    /\ now = 0 /\ runs = 0
IdleBatch == final_messages = << >> /\ sent = << >>
IdleWhale ==
    /\ section = "idle" /\ messages = << >> /\ chain = 1 /\ data = << >>
    /\ biggest_transfer = NoTransfer /\ any_million_found = FALSE /\ qualifying = {}
IdleMain == at = "idle" /\ events = << >> /\ failing = {} /\ old_rows = << >>
IdleIntel ==
    /\ IdleStructure /\ IdleScan /\ outcome = "pending" /\ IdleHistory /\ IdleBatch
    /\ IdleWhale /\ IdleMain

\* a pass that is not about score, volume or levels
IdleReport ==
    /\ NoOutputs
    /\ price = 400 /\ prev_close = 400 /\ vol_ratio = FNaN(FALSE)
    /\ IdleIndicators /\ IdleVolume /\ IdleCandles

----------------------------------------------------------------------------
(* The scoring pass *)

InitScore ==
    /\ NoOutputs
    /\ IdleIntel
    /\ prev_close = 400
    /\ price \in PriceInputs
    /\ \/ /\ script = "xrp_report"
          /\ indicators \in XrpIndicators
          /\ i = NoCombinedIndicators
       \/ /\ script = "combined"
          /\ indicators = NoXrpIndicators
          /\ i \in CombinedIndicators
    /\ IdleVolume /\ vol_ratio = FNaN(FALSE)
    /\ IdleCandles

\* xrp_report.compose_and_send_report, the probability block
ComposeScores ==
    /\ script = "xrp_report"
    /\ "compose_scores" \notin ran
    /\ LET s == compose_scores(price, indicators)
       IN /\ bullish' = s.bullish
          /\ bearish' = s.bearish
    /\ ran' = ran \cup {"compose_scores"}
    /\ UNCHANGED << script, price, prev_close, indicators, i, bull, bear, teaser_bull >>
    /\ UNCHANGED << volumeVars, vol_ratio, levelVars >>
    /\ UNCHANGED intelVars

\* combined build_discord_message, the probability block
BuildDiscordScore ==
    /\ script = "combined"
    /\ "discord_bull" \notin ran
    /\ LET s == discord_bull(price, prev_close, i)
       IN /\ bull' = s.bull
          /\ bear' = s.bear
    /\ ran' = ran \cup {"discord_bull"}
    /\ UNCHANGED << script, price, prev_close, indicators, i, bullish, bearish, teaser_bull >>
    /\ UNCHANGED << volumeVars, vol_ratio, levelVars >>
    /\ UNCHANGED intelVars

\* combined build_x_teaser, the probability block; main() builds the teaser
\* after the Discord report
BuildTeaserScore ==
    /\ script = "combined"
    /\ "discord_bull" \in ran
    /\ "x_teaser_bull" \notin ran
    /\ teaser_bull' = x_teaser_bull(price, prev_close, i)
    /\ ran' = ran \cup {"x_teaser_bull"}
    /\ UNCHANGED << script, price, prev_close, indicators, i, bullish, bearish, bull, bear >>
    /\ UNCHANGED << volumeVars, vol_ratio, levelVars >>
    /\ UNCHANGED intelVars

NextScore == ComposeScores \/ BuildDiscordScore \/ BuildTeaserScore

SpecScore == InitScore /\ [][NextScore]_vars

----------------------------------------------------------------------------
(* The volume pass *)

InitVolume ==
    /\ NoOutputs
    /\ IdleIntel
    /\ \/ script = "xrp_report" /\ volume \in VolumeInputs(XrpLengths)
       \/ script = "combined" /\ volume \in VolumeInputs(CombinedLengths)
    /\ vol_ratio = FNaN(FALSE)
    /\ price = 400 /\ prev_close = 400
    /\ IdleIndicators
    /\ IdleCandles

\* xrp_report.compose_and_send_report: vol = detect_volume_spike(df)
DetectVolumeSpike ==
    /\ script = "xrp_report"
    /\ "detect_volume_spike" \notin ran
    /\ vol' = detect_volume_spike(volume)
    /\ ran' = ran \cup {"detect_volume_spike"}
    /\ UNCHANGED << script, volume, vol_text, vol_ratio >>
    /\ UNCHANGED << scoreVars, levelVars >>
    /\ UNCHANGED intelVars

\* combined build_discord_message: vol_text = volume_spike(df) and
\* vol_ratio = the same quotient, unrounded
BuildDiscordVolume ==
    /\ script = "combined"
    /\ "volume_spike" \notin ran
    /\ vol_text' \in volume_spike(volume)
    /\ vol_ratio' = volume_ratio(volume)
    /\ ran' = ran \cup {"volume_spike"}
    /\ UNCHANGED << script, volume, vol >>
    /\ UNCHANGED << scoreVars, levelVars >>
    /\ UNCHANGED intelVars

NextVolume == DetectVolumeSpike \/ BuildDiscordVolume

SpecVolume == InitVolume /\ [][NextVolume]_vars

----------------------------------------------------------------------------
(* The levels pass *)

InitLevels ==
    /\ NoOutputs
    /\ IdleIntel
    /\ \/ /\ script = "xrp_report"
          /\ df \in XrpCandleInputs
          /\ vol_ratio = FNaN(FALSE) /\ bb_width = 0
       \/ /\ script = "combined"
          /\ df \in CombinedCandleInputs
          /\ vol_ratio \in VolRatioInputs
          /\ bb_width \in BbWidthInputs
    /\ price = df[Len(df)].close
    /\ prev_close = IF Len(df) > 1 THEN df[Len(df) - 1].close ELSE price
    /\ IdleIndicators
    /\ IdleVolume

\* combined build_discord_message: levels, triggers and caution
BuildDiscordLevels ==
    /\ script = "combined"
    /\ "dynamic_levels" \notin ran
    /\ levels' = dynamic_levels(df)
    /\ triggers' = flips_triggers(price, levels')
    /\ caution' = caution_level(price, vol_ratio, levels',
                                price_change(price, prev_close), bb_width)
    /\ ran' = ran \cup {"dynamic_levels"}
    /\ UNCHANGED << script, df, bb_width, xrp_levels, flips >>
    /\ UNCHANGED << scoreVars, volumeVars, vol_ratio >>
    /\ UNCHANGED intelVars

\* xrp_report.compose_and_send_report: the live price goes into the last
\* close, then levels and flips
ComposeLevels ==
    /\ script = "xrp_report"
    /\ "compute_dynamic_levels" \notin ran
    /\ Len(df) >= MinConfirmCandles
    /\ df' = [df EXCEPT ![Len(df)].close = price]
    /\ xrp_levels' = compute_dynamic_levels(df', price)
    /\ flips' = compose_flips(price, xrp_levels')
    /\ ran' = ran \cup {"compute_dynamic_levels"}
    /\ UNCHANGED << script, bb_width, levels, triggers, caution >>
    /\ UNCHANGED << scoreVars, volumeVars, vol_ratio >>
    /\ UNCHANGED intelVars

NextLevels == BuildDiscordLevels \/ ComposeLevels

SpecLevels == InitLevels /\ [][NextLevels]_vars

----------------------------------------------------------------------------
(* The market-structure pass (combined build_discord_message) *)

InitStructure ==
    /\ script = "combined"
    /\ IdleReport
    /\ smc \in SmcInputs
    /\ market_struct = "None"
    /\ IdleScan /\ outcome = "pending" /\ IdleHistory /\ IdleBatch /\ IdleWhale /\ IdleMain

\* combined build_discord_message: market_struct = compute_market_structure(df)
BuildDiscordStructure ==
    /\ script = "combined"
    /\ "compute_market_structure" \notin ran
    /\ market_struct' = compute_market_structure(smc)
    /\ ran' = ran \cup {"compute_market_structure"}
    /\ UNCHANGED << script, smc, vol_ratio >>
    /\ UNCHANGED << scoreVars, volumeVars, levelVars, scanVars, outcome, histVars, batchVars, whaleVars, mainVars >>

NextStructure == BuildDiscordStructure

SpecStructure == InitStructure /\ [][NextStructure]_vars

----------------------------------------------------------------------------
(* The divergence pass (xrp_report.compose_and_send_report) *)

InitScan ==
    /\ script = "xrp_report"
    /\ NoOutputs
    /\ df \in ScanColumns /\ bb_width = 0
    /\ rsi_series \in RsiColumns(df)
    /\ lows_idx = << >> /\ highs_idx = << >> /\ div = "None"
    /\ price = df[Len(df)].close /\ prev_close = price
    /\ vol_ratio = FNaN(FALSE)
    /\ IdleIndicators /\ IdleVolume /\ IdleStructure /\ outcome = "pending"
    /\ IdleHistory /\ IdleBatch /\ IdleWhale /\ IdleMain

\* xrp_report.compose_and_send_report:
\* div = detect_rsi_divergence(df, indicators.get("rsi_series"))
DetectRsiDivergence ==
    /\ script = "xrp_report"
    /\ "detect_rsi_divergence" \notin ran
    /\ LET res == detect_rsi_divergence(df, rsi_series)
       IN /\ div' = res.kind
          /\ lows_idx' = res.lows_idx
          /\ highs_idx' = res.highs_idx
          /\ ran' = ran \cup {"detect_rsi_divergence"} \cup res.steps
    /\ UNCHANGED << script, rsi_series, vol_ratio >>
    /\ UNCHANGED << scoreVars, volumeVars, levelVars, structVars, outcome, histVars, batchVars, whaleVars, mainVars >>

NextScan == DetectRsiDivergence

SpecScan == InitScan /\ [][NextScan]_vars

----------------------------------------------------------------------------
(* A whole pass of main(), from the fetched candles to the report *)

InitPass ==
    /\ NoOutputs
    /\ \/ /\ script = "xrp_report"
          /\ df \in PassXrpCandles
          /\ indicators \in PassXrpIndicators
          /\ i = NoCombinedIndicators
       \/ /\ script = "combined"
          /\ df \in PassCombinedCandles
          /\ indicators = NoXrpIndicators
          /\ i \in PassCombinedIndicators
    /\ price = df[Len(df)].close
    /\ prev_close = IF Len(df) > 1 THEN df[Len(df) - 1].close ELSE price
    /\ vol_ratio = FNum(1, 1) /\ bb_width = 0
    /\ IdleVolume /\ IdleStructure /\ IdleScan /\ IdleHistory /\ IdleBatch /\ IdleWhale /\ IdleMain
    /\ outcome = "pending"

\* xrp_report.main -> compose_and_send_report(df, live_price): the scores,
\* then multi_timeframe_confirmations, which raises IndexError at
\* rsi_series.iloc[-3] on fewer than 3 candles, then levels, flips and the
\* report
ComposeAndSendReport ==
    /\ script = "xrp_report"
    /\ outcome = "pending"
    /\ LET s == compose_scores(price, indicators)
       IN /\ bullish' = s.bullish
          /\ bearish' = s.bearish
    /\ IF Len(df) < MinConfirmCandles
       THEN /\ outcome' = "raised"
            /\ UNCHANGED << xrp_levels, flips >>
       ELSE /\ xrp_levels' = compute_dynamic_levels(df, price)
            /\ flips' = compose_flips(price, xrp_levels')
            /\ outcome' = "report"
    /\ ran' = ran \cup {"compose_and_send_report"}
    /\ UNCHANGED << script, price, prev_close, indicators, i, bull, bear, teaser_bull >>
    /\ UNCHANGED << volumeVars, vol_ratio, df, bb_width, levels, triggers, caution >>
    /\ UNCHANGED << structVars, scanVars, histVars, batchVars, whaleVars, mainVars >>

\* combined main(): no report below MinReportCandles, else
\* build_discord_message(df) and build_x_teaser(df)
CombinedMain ==
    /\ script = "combined"
    /\ outcome = "pending"
    /\ IF Len(df) < MinReportCandles
       THEN /\ outcome' = "skipped"
            /\ UNCHANGED << levels, triggers, caution, bull, bear, teaser_bull >>
       ELSE /\ levels' = dynamic_levels(df)
            /\ triggers' = flips_triggers(price, levels')
            /\ caution' = caution_level(price, vol_ratio, levels',
                                        price_change(price, prev_close), bb_width)
            /\ LET s == discord_bull(price, prev_close, i)
               IN /\ bull' = s.bull
                  /\ bear' = s.bear
            /\ teaser_bull' = x_teaser_bull(price, prev_close, i)
            /\ outcome' = "report"
    /\ ran' = ran \cup {"main"}
    /\ UNCHANGED << script, price, prev_close, indicators, i, bullish, bearish >>
    /\ UNCHANGED << volumeVars, vol_ratio, df, bb_width, xrp_levels, flips >>
    /\ UNCHANGED << structVars, scanVars, histVars, batchVars, whaleVars, mainVars >>

NextPass == ComposeAndSendReport \/ CombinedMain

SpecPass == InitPass /\ [][NextPass]_vars

----------------------------------------------------------------------------
(* Successive runs of main() over the history file *)

InitHistory ==
    /\ script \in {"xrp_report", "combined"}
    /\ IdleReport /\ IdleStructure /\ IdleScan
    /\ outcome = "pending"
    /\ IdleHistory /\ IdleBatch /\ IdleWhale /\ IdleMain

\* combined main(): fetch, load the file (a failed load leaves old_df
\* empty), merge, save, and report on MinReportCandles rows or more
CombinedRun ==
    /\ script = "combined"
    /\ runs < MaxRuns
    /\ \E fresh_df \in FreshBatches, loaded \in BOOLEAN :
          LET old_df == IF loaded THEN csv ELSE << >>
              merged == merge_history(old_df, fresh_df)
          IN /\ loaded \/ csv # << >>
             /\ fetched' = fresh_df
             /\ stored' = csv
             /\ csv' = merged
             /\ series' = merged
             /\ outcome' = IF Len(merged) < MinReportCandles THEN "skipped" ELSE "report"
    /\ runs' = runs + 1
    /\ ran' = ran \cup {"main"}
    /\ UNCHANGED << script, now, vol_ratio >>
    /\ UNCHANGED << scoreVars, volumeVars, levelVars, structVars, scanVars, batchVars, whaleVars, mainVars >>

\* xrp_report.main(): the last fetched row goes to update_history_csv,
\* inside a try: when the update raises, the file is left as it was
XrpRun ==
    /\ script = "xrp_report"
    /\ runs < MaxRuns
    /\ \E days \in {0, 1, RetentionDays}, raises \in BOOLEAN :
          /\ now' = now + days
          /\ \E row \in LastRows(now') :
                /\ fetched' = << row >>
                /\ stored' = csv
                /\ csv' = IF raises THEN csv ELSE update_history_csv(csv, row, now')
    /\ runs' = runs + 1
    /\ ran' = ran \cup {"main"}
    /\ UNCHANGED << script, series, outcome, vol_ratio >>
    /\ UNCHANGED << scoreVars, volumeVars, levelVars, structVars, scanVars, batchVars, whaleVars, mainVars >>

NextHistory == CombinedRun \/ XrpRun

SpecHistory == InitHistory /\ [][NextHistory]_vars

----------------------------------------------------------------------------
(* send_batched on a list of messages (crypto-intel.py) *)

InitBatch ==
    /\ script = "crypto-intel"
    /\ IdleReport /\ IdleStructure /\ IdleScan
    /\ outcome = "pending"
    /\ IdleHistory /\ IdleWhale /\ IdleMain
    /\ final_messages \in MessageLists
    /\ sent = << >>

\* send_batched(final_messages)
SendBatched ==
    /\ script = "crypto-intel"
    /\ "send_batched" \notin ran
    /\ sent' = send_batched(sent, final_messages)
    /\ ran' = ran \cup {"send_batched"}
    /\ UNCHANGED << script, final_messages, vol_ratio, outcome >>
    /\ UNCHANGED << scoreVars, volumeVars, levelVars, structVars, scanVars, histVars, whaleVars, mainVars >>

NextBatch == SendBatched

SpecBatch == InitBatch /\ [][NextBatch]_vars

----------------------------------------------------------------------------
(* A run of crypto-intel.py, section by section *)

Payload(name) == [len |-> 40, text |-> TRUE, parts |-> << name >>]
Part(name, n) == [id |-> name, len |-> n, text |-> TRUE]

InitIntel ==
    /\ script = "crypto-intel"
    /\ IdleReport /\ IdleStructure /\ IdleScan
    /\ outcome = "pending"
    /\ IdleHistory /\ IdleBatch /\ IdleMain
    /\ section = "intro" /\ messages = << >> /\ chain = 1 /\ data = << >>
    /\ biggest_transfer = NoTransfer /\ any_million_found = FALSE /\ qualifying = {}

\* 0. Intro: send_raw("... Starting Scan ...")
Intro ==
    /\ section = "intro"
    /\ sent' = Append(sent, Payload("intro"))
    /\ section' = "movers"
    /\ UNCHANGED << messages, chain, data, biggest_transfer, any_million_found, qualifying >>
    /\ UNCHANGED << script, ran, vol_ratio, outcome, final_messages >>
    /\ UNCHANGED << scoreVars, volumeVars, levelVars, structVars, scanVars, histVars, mainVars >>

\* 1. Market movers: the table, or the fallback line when anything raises
MarketMovers ==
    /\ section = "movers"
    /\ \E part \in {Part("movers", 700), Part("movers unavailable", 40)} :
          messages' = Append(messages, part)
    /\ section' = "whale"
    /\ UNCHANGED << chain, data, biggest_transfer, any_million_found, qualifying >>
    /\ UNCHANGED << script, ran, vol_ratio, outcome, batchVars >>
    /\ UNCHANGED << scoreVars, volumeVars, levelVars, structVars, scanVars, histVars, mainVars >>

\* 2. Whale alerts: one iteration of the loop over datasets
WhaleChain ==
    /\ section = "whale"
    /\ chain <= Len(Chains)
    /\ \E feed \in Feeds :
          /\ data' = feed
          /\ biggest_transfer' = whale_chain(biggest_transfer, Chains[chain], feed)
          /\ any_million_found' = (any_million_found \/ \E k \in 1..Len(feed) : feed[k] >= MIN_USD)
          /\ qualifying' = qualifying \cup {feed[k] : k \in {j \in 1..Len(feed) : feed[j] >= MIN_USD}}
    /\ chain' = chain + 1
    /\ UNCHANGED << section, messages >>
    /\ UNCHANGED << script, ran, vol_ratio, outcome, batchVars >>
    /\ UNCHANGED << scoreVars, volumeVars, levelVars, structVars, scanVars, histVars, mainVars >>

\* 2. Whale alerts, after the loop: the summary is built and handed to
\* send(msg). No `send` is defined (only send_raw and send_batched), so the
\* call raises NameError; the handler of the section calls send(...) again,
\* and that NameError ends the script.
WhaleSend ==
    /\ section = "whale"
    /\ chain > Len(Chains)
    /\ section' = "crashed"
    /\ UNCHANGED << messages, chain, data, biggest_transfer, any_million_found, qualifying >>
    /\ UNCHANGED << script, ran, vol_ratio, outcome, batchVars >>
    /\ UNCHANGED << scoreVars, volumeVars, levelVars, structVars, scanVars, histVars, mainVars >>

\* 2. Whale alerts: an exception inside the loop (a feed entry that is not
\* a dict) goes to the same handler, whose send(...) ends the script
WhaleFail ==
    /\ section = "whale"
    /\ chain <= Len(Chains)
    /\ section' = "crashed"
    /\ UNCHANGED << messages, chain, data, biggest_transfer, any_million_found, qualifying >>
    /\ UNCHANGED << script, ran, vol_ratio, outcome, batchVars >>
    /\ UNCHANGED << scoreVars, volumeVars, levelVars, structVars, scanVars, histVars, mainVars >>

NextIntel == Intro \/ MarketMovers \/ WhaleChain \/ WhaleSend \/ WhaleFail

SpecIntel == InitIntel /\ [][NextIntel]_vars

----------------------------------------------------------------------------
(* flips_triggers on its own: any price against the levels of any range *)

TriggerLows == {150000, 200000}
TriggerHighs == {150000, 200000, 200005, 300000}
TriggerPrices ==
    {140000, 149999, 150000, 155899, 155900, 155901, 161799, 161800, 169100,
     169101, 180900, 180901, 199999, 200000, 200001, 250000, 350000}

\* the levels dynamic_levels returns for a selected high and low
TriggerLevels ==
    { level_set(low, level_range(high, low), "7-day") :
        low \in TriggerLows, high \in TriggerHighs }

InitTriggers ==
    /\ script = "combined"
    /\ ran = {}
    /\ bullish = 50 /\ bearish = 50
    /\ bull = Rat(0, 1) /\ bear = Rat(0, 1) /\ teaser_bull = Rat(0, 1)
    /\ vol = [ratio |-> Rat(0, 1), avg |-> Rat(0, 1), last |-> 0, level |-> "None"]
    /\ vol_text = [tier |-> "Normal", ratio |-> FNaN(FALSE)]
    /\ triggers = "Stable" /\ caution = "Safe"
    /\ xrp_levels = NoXrpLevels /\ flips = << >>
    /\ prev_close = 400 /\ vol_ratio = FNaN(FALSE)
    /\ IdleIndicators /\ IdleVolume /\ IdleCandles
    /\ IdleIntel
    /\ price \in TriggerPrices
    /\ levels \in TriggerLevels

\* flips_triggers(price, levels)
FlipsTriggers ==
    /\ script = "combined"
    /\ "flips_triggers" \notin ran
    /\ triggers' = flips_triggers(price, levels)
    /\ ran' = ran \cup {"flips_triggers"}
    /\ UNCHANGED << script, df, bb_width, levels, caution, xrp_levels, flips >>
    /\ UNCHANGED << scoreVars, volumeVars, vol_ratio >>
    /\ UNCHANGED intelVars

NextTriggers == FlipsTriggers

SpecTriggers == InitTriggers /\ [][NextTriggers]_vars

----------------------------------------------------------------------------
(* One run of main(), statement by statement, with failing external calls *)

\* mutant of send_discord: no try around requests.post
send_discord_unguarded(post_fails) ==
    [raised |-> post_fails, delivered |-> ~post_fails]

\* combined send_discord(msg): an exception of requests.post is caught
send_discord(post_fails) ==
    [raised |-> FALSE, delivered |-> ~post_fails]

\* combined post_to_x(text): an exception of requests.post is caught
post_to_x(post_fails) ==
    [raised |-> FALSE, posted |-> ~post_fails]

\* mutant of try_update_history: no try around update_history_csv
update_history_unguarded(hist, row, t, raises) ==
    [csv |-> IF raises THEN hist ELSE update_history_csv(hist, row, t),
     wrote |-> ~raises, raised |-> raises]

\* xrp_report.main: try: update_history_csv(last_row) except Exception: print
try_update_history(hist, row, t, raises) ==
    [csv |-> IF raises THEN hist ELSE update_history_csv(hist, row, t),
     wrote |-> ~raises, raised |-> FALSE]

\* xrp_report.main: the live price, or the last hourly close when
\* fetch_live_price returned None
live_price_or_close(fetch_failed, live, d) ==
    IF fetch_failed THEN d[Len(d)].close ELSE live

\* xrp_report.main: the live price goes into the last row of a copy of df
inject_live_price(d, live) ==
    [d EXCEPT ![Len(d)] = Candle(Max(d[Len(d)].high, live), Min(d[Len(d)].low, live), live)]

\* the external calls of each script that can fail
XrpFaults == {"market_chart", "empty_payload", "simple_price", "history_csv", "discord"}
CombinedFaults == {"histohour", "read_csv", "discord", "x"}

\* what fetch_30d_hourly returns when it succeeds, and the live prices
MainXrpCandles ==
    { CloseColumn(n, 100000, 180000, 200000, p) : n \in {1, 2, 3, 5}, p \in {190000, 210000} }
LivePrices == {185000, 205000}

\* the history file before the run, and what fetch_xrp_hourly_data returns
MainStoredRows == {<< >>, Batch(1, 2, 1), Batch(MinReportCandles, 1, 1)}
MainBatches ==
    {Batch(1, 2, 1), Batch(1, MinReportCandles - 1, 1), Batch(2, MinReportCandles, 2)}
MainXrpStoredRows == {<< >>, << [timestamp |-> 0, close |-> 1] >>}

InitMain ==
    /\ IdleReport /\ IdleStructure /\ IdleScan /\ IdleBatch /\ IdleWhale
    /\ outcome = "pending"
    /\ fetched = << >> /\ series = << >> /\ now = 0 /\ runs = 0
    /\ old_rows = << >>
    /\ at = "start" /\ events = << >>
    /\ \/ /\ script = "xrp_report"
          /\ csv \in MainXrpStoredRows
          /\ failing \in SUBSET XrpFaults
       \/ /\ script = "combined"
          /\ csv \in MainStoredRows
          /\ failing \in SUBSET CombinedFaults
    /\ stored = csv

\* xrp_report.main: df = fetch_30d_hourly(), which returns None when the
\* request raises or the payload has no prices or volumes; then main prints
\* "No data, aborting." and returns
XrpFetchHistory ==
    /\ script = "xrp_report"
    /\ at = "start"
    /\ IF failing \cap {"market_chart", "empty_payload"} # {}
       THEN /\ at' = "done"
            /\ outcome' = "aborted"
            /\ events' = Append(events, "abort")
            /\ UNCHANGED << df, fetched >>
       ELSE /\ \E d \in MainXrpCandles : df' = d /\ fetched' = d
            /\ at' = "live"
            /\ UNCHANGED << outcome, events >>
    /\ ran' = ran \cup {"fetch_30d_hourly"}
    /\ UNCHANGED << script, price, prev_close, indicators, i, bullish, bearish, bull, bear, teaser_bull >>
    /\ UNCHANGED << volumeVars, vol_ratio, bb_width, levels, triggers, caution, xrp_levels, flips >>
    /\ UNCHANGED << structVars, scanVars, batchVars, whaleVars >>
    /\ UNCHANGED << csv, stored, series, now, runs, failing, old_rows >>

\* xrp_report.main: fetch_live_price(), the fallback, and the injection
\* into a copy of df
XrpLivePrice ==
    /\ script = "xrp_report"
    /\ at = "live"
    /\ \E live \in LivePrices :
          price' = live_price_or_close("simple_price" \in failing, live, df)
    /\ df' = inject_live_price(df, price')
    /\ at' = "history"
    /\ ran' = ran \cup {"fetch_live_price"}
    /\ UNCHANGED << script, prev_close, indicators, i, bullish, bearish, bull, bear, teaser_bull >>
    /\ UNCHANGED << volumeVars, vol_ratio, bb_width, levels, triggers, caution, xrp_levels, flips >>
    /\ UNCHANGED << structVars, scanVars, batchVars, whaleVars, outcome, histVars >>
    /\ UNCHANGED << events, failing, old_rows >>

\* xrp_report.main: update_history_csv(last_row) inside try / except
XrpUpdateHistory ==
    /\ script = "xrp_report"
    /\ at = "history"
    /\ LET last_row == [timestamp |-> now, close |-> price]
           res == try_update_history(csv, last_row, now, "history_csv" \in failing)
       IN /\ csv' = res.csv
          /\ events' = IF res.wrote THEN Append(events, "to_csv") ELSE events
          /\ at' = IF res.raised THEN "done" ELSE "compose"
          /\ outcome' = IF res.raised THEN "raised" ELSE outcome
    /\ ran' = ran \cup {"update_history_csv"}
    /\ UNCHANGED << script, vol_ratio, stored, fetched, series, now, runs, failing, old_rows >>
    /\ UNCHANGED << scoreVars, volumeVars, levelVars, structVars, scanVars, batchVars, whaleVars >>

\* xrp_report.main: compose_and_send_report(df, live_price), which raises
\* on fewer than 3 candles and else ends with send_discord(message)
XrpComposeAndSend ==
    /\ script = "xrp_report"
    /\ at = "compose"
    /\ IF Len(df) < MinConfirmCandles
       THEN /\ events' = Append(events, "compose_and_send_report")
            /\ outcome' = "raised"
       ELSE /\ events' = events \o << "compose_and_send_report", "send_discord" >>
            /\ outcome' = "report"
    /\ at' = "done"
    /\ ran' = ran \cup {"compose_and_send_report"}
    /\ UNCHANGED << script, vol_ratio, histVars, failing, old_rows >>
    /\ UNCHANGED << scoreVars, volumeVars, levelVars, structVars, scanVars, batchVars, whaleVars >>

\* combined main: fresh_df = fetch_xrp_hourly_data(), whose exceptions are
\* not caught
MainFetchHourly ==
    /\ script = "combined"
    /\ at = "start"
    /\ IF "histohour" \in failing
       THEN /\ at' = "done"
            /\ outcome' = "raised"
            /\ UNCHANGED fetched
       ELSE /\ fetched' \in MainBatches
            /\ at' = "load"
            /\ UNCHANGED outcome
    /\ ran' = ran \cup {"fetch_xrp_hourly_data"}
    /\ UNCHANGED << script, vol_ratio, csv, stored, series, now, runs, events, failing, old_rows >>
    /\ UNCHANGED << scoreVars, volumeVars, levelVars, structVars, scanVars, batchVars, whaleVars >>

\* combined main: old_df is the file when it exists and loads, else empty
MainLoadCsv ==
    /\ script = "combined"
    /\ at = "load"
    /\ old_rows' = IF "read_csv" \in failing THEN << >> ELSE csv
    /\ at' = "merge"
    /\ ran' = ran \cup {"read_csv"}
    /\ UNCHANGED << script, vol_ratio, outcome, histVars, events, failing >>
    /\ UNCHANGED << scoreVars, volumeVars, levelVars, structVars, scanVars, batchVars, whaleVars >>

\* combined main: df = concat, drop_duplicates, sort_values; df.to_csv
MainSaveCsv ==
    /\ script = "combined"
    /\ at = "merge"
    /\ series' = merge_history(old_rows, fetched)
    /\ csv' = series'
    /\ events' = Append(events, "to_csv")
    /\ at' = "check"
    /\ ran' = ran \cup {"to_csv"}
    /\ UNCHANGED << script, vol_ratio, outcome, stored, fetched, now, runs, failing, old_rows >>
    /\ UNCHANGED << scoreVars, volumeVars, levelVars, structVars, scanVars, batchVars, whaleVars >>

\* combined main: if len(df) < 300: return
MainCheckLength ==
    /\ script = "combined"
    /\ at = "check"
    /\ events' = Append(events, "check")
    /\ IF Len(series) < MinReportCandles
       THEN at' = "done" /\ outcome' = "skipped"
       ELSE at' = "discord" /\ UNCHANGED outcome
    /\ ran' = ran \cup {"len(df) < 300"}
    /\ UNCHANGED << script, vol_ratio, histVars, failing, old_rows >>
    /\ UNCHANGED << scoreVars, volumeVars, levelVars, structVars, scanVars, batchVars, whaleVars >>

\* combined main: send_discord(build_discord_message(df))
MainSendDiscord ==
    /\ script = "combined"
    /\ at = "discord"
    /\ LET res == send_discord("discord" \in failing)
       IN /\ events' = Append(events, "send_discord")
          /\ at' = IF res.raised THEN "done" ELSE "x"
          /\ outcome' = IF res.raised THEN "raised" ELSE outcome
    /\ ran' = ran \cup {"send_discord"}
    /\ UNCHANGED << script, vol_ratio, histVars, failing, old_rows >>
    /\ UNCHANGED << scoreVars, volumeVars, levelVars, structVars, scanVars, batchVars, whaleVars >>

\* combined main: post_to_x(build_x_teaser(df))
MainPostToX ==
    /\ script = "combined"
    /\ at = "x"
    /\ LET res == post_to_x("x" \in failing)
       IN /\ events' = Append(events, "post_to_x")
          /\ outcome' = IF res.raised THEN "raised" ELSE "report"
    /\ at' = "done"
    /\ ran' = ran \cup {"post_to_x"}
    /\ UNCHANGED << script, vol_ratio, histVars, failing, old_rows >>
    /\ UNCHANGED << scoreVars, volumeVars, levelVars, structVars, scanVars, batchVars, whaleVars >>

NextMain ==
    \/ XrpFetchHistory \/ XrpLivePrice \/ XrpUpdateHistory \/ XrpComposeAndSend
    \/ MainFetchHourly \/ MainLoadCsv \/ MainSaveCsv \/ MainCheckLength
    \/ MainSendDiscord \/ MainPostToX

SpecMain == InitMain /\ [][NextMain]_vars

----------------------------------------------------------------------------
(* Claims about the bull / bear probability, checked under SpecScore *)

\* C1: the bullish and bearish scores a report publishes are integers in
\* [0,100] that sum to exactly 100, in xrp_report.compose_and_send_report
\* and in combined build_discord_message.
C1_ScoresIntegerInRangeSum100 ==
    /\ "compose_scores" \in ran =>
          /\ bullish \in 0..100
          /\ bearish \in 0..100
          /\ bullish + bearish = 100
    /\ "discord_bull" \in ran =>
          /\ RatIsInt(bull) /\ RatIsInt(bear)
          /\ RatGe(bull, 0) /\ RatLe(bull, 100)
          /\ RatGe(bear, 0) /\ RatLe(bear, 100)
          /\ RatEq(RatAdd(bull, bear), Rat(100, 1))

\* C2: in compose_and_send_report bullish = clamp(50 + a + b + c + d, 0, 100)
\* with a = +-15 by price > ma50, b = +-20 by macd_line > macd_signal,
\* c = +10 / -10 / 0 by rsi < 30 / rsi > 70, d = +5 if ma50 > ma200, and
\* bearish = 100 - bullish.
C2_BullishFormula ==
    "compose_scores" \in ran =>
        LET a == IF Gt(Num(price), indicators.ma50) THEN 15 ELSE -15
            b == IF Gt(indicators.macd_line, indicators.macd_signal) THEN 20 ELSE -20
            c == IF Lt(indicators.rsi, Num(30)) THEN 10
                 ELSE IF Gt(indicators.rsi, Num(70)) THEN -10 ELSE 0
            d == IF Gt(indicators.ma50, indicators.ma200) THEN 5 ELSE 0
        IN /\ bullish = Max(0, Min(100, 50 + a + b + c + d))
           /\ bearish = 100 - bullish

\* C2 witness: all four comparisons bullish, the score at its upper clamp
C2_Witness ==
    /\ "compose_scores" \in ran
    /\ Gt(indicators.ma50, indicators.ma200)
    /\ bullish = 100 /\ bearish = 0

----------------------------------------------------------------------------
(* Claims about the volume classifier, checked under SpecVolume *)

\* the exact quotient latest volume / mean of the trailing 24 volumes, as a
\* rational; defined for 24 candles or more with a positive mean
TrailingSum == SumSeq(TailN(volume, VolumeWindow))
TrailingRatio == Reduced(volume[Len(volume)] * VolumeWindow, TrailingSum)

\* the tier the inclusive lower bounds 1.50 / 1.30 / 1.15 give a ratio
InclusiveTier(r) ==
    IF r.n * 100 >= 150 * r.d THEN "Extreme"
    ELSE IF r.n * 100 >= 130 * r.d THEN "Strong"
    ELSE IF r.n * 100 >= 115 * r.d THEN "Caution"
    ELSE "Normal"

XrpTier == CASE vol.level = "EXTREME" -> "Extreme"
             [] vol.level = "STRONG" -> "Strong"
             [] vol.level = "CAUTION" -> "Caution"
             [] OTHER -> "Normal"

CombinedTier == CASE vol_text.tier = "Extreme Surge" -> "Extreme"
                  [] vol_text.tier = "Strong Surge" -> "Strong"
                  [] vol_text.tier = "Elevated" -> "Caution"
                  [] OTHER -> "Normal"

\* C3: the tiers have inclusive lower bounds applied to the unrounded ratio
\* (1.15, 1.30, 1.50 map to Caution, Strong, Extreme; anything below 1.15,
\* such as 1.149999, maps to Normal), in detect_volume_spike and in
\* volume_spike.
C3_TiersOnUnroundedRatio ==
    (Len(volume) >= VolumeWindow /\ TrailingSum > 0) =>
        /\ "detect_volume_spike" \in ran => XrpTier = InclusiveTier(TrailingRatio)
        /\ "volume_spike" \in ran => CombinedTier = InclusiveTier(TrailingRatio)

\* C4: when the trailing mean is zero or undefined, the classifier reports
\* ratio = 0 and tier Normal and divides by nothing that is zero, in
\* detect_volume_spike and wherever the combined script computes the ratio.
C4_ZeroMeanGivesZeroRatio ==
    /\ ("detect_volume_spike" \in ran /\ TrailingSum = 0) =>
          /\ vol.ratio.n = 0
          /\ XrpTier = "Normal"
    /\ ("volume_spike" \in ran /\ (Len(volume) < VolumeWindow \/ TrailingSum = 0)) =>
          /\ vol_ratio.kind = "num" /\ vol_ratio.n = 0
          /\ ~vol_ratio.divzero
          /\ CombinedTier = "Normal"

----------------------------------------------------------------------------
(* Claims about levels, triggers and caution, checked under SpecLevels *)

AllPositive == \A k \in 1..Len(df) : df[k].high > 0 /\ df[k].low > 0 /\ df[k].close > 0

Ordered(lv) ==
    /\ lv.danger < lv.breakdown_strong
    /\ lv.breakdown_strong < lv.breakdown_weak
    /\ lv.breakdown_weak < lv.breakout_weak
    /\ lv.breakout_weak < lv.breakout_strong

\* C5: for positive prices danger < breakdown_strong < breakdown_weak <
\* breakout_weak < breakout_strong, also when the selected high equals the
\* selected low, in dynamic_levels and in compute_dynamic_levels.
C5_LevelOrdering ==
    AllPositive =>
        /\ "dynamic_levels" \in ran => Ordered(levels)
        /\ "compute_dynamic_levels" \in ran => Ordered(xrp_levels)

\* C5 witness: the degenerate range, selected high = selected low
C5_Witness ==
    /\ "dynamic_levels" \in ran
    /\ AllPositive
    /\ HighMax(df, WeekWindow) = LowMin(df, WeekWindow)
    /\ levels.range_mode = "7-day"

\* the drop from the long-range high is strictly more than 10%
DropOver10 ==
    LET long_high == HighMax(df, WeekWindow)
    IN long_high > 0 /\ (long_high - price) * 10 > long_high

\* C6: the short (24-candle) range is selected exactly when drop_from_long
\* > 0.10 (strictly), the long (168-candle) range otherwise, also at a drop
\* of exactly 10% and for long_high <= 0; range_mode names the range the
\* levels are built on.
C6_RangeSelection ==
    "dynamic_levels" \in ran =>
        LET high == IF DropOver10 THEN HighMax(df, DayWindow) ELSE HighMax(df, WeekWindow)
            low == IF DropOver10 THEN LowMin(df, DayWindow) ELSE LowMin(df, WeekWindow)
        IN /\ levels.range_mode = (IF DropOver10 THEN "24h crash mode" ELSE "7-day")
           /\ levels.danger = low * 1000
           /\ high - low >= Epsilon => levels.breakout_strong - levels.danger = 618 * (high - low)

\* C6 witness: a drop of exactly 10% with the two ranges apart
C6_Witness ==
    /\ "dynamic_levels" \in ran
    /\ HighMax(df, WeekWindow) > 0
    /\ (HighMax(df, WeekWindow) - price) * 10 = HighMax(df, WeekWindow)
    /\ LowMin(df, DayWindow) # LowMin(df, WeekWindow)
    /\ levels.range_mode = "7-day"

\* the range the reported range_mode names
SelectedHigh ==
    IF levels.range_mode = "7-day" THEN HighMax(df, WeekWindow) ELSE HighMax(df, DayWindow)
SelectedLow ==
    IF levels.range_mode = "7-day" THEN LowMin(df, WeekWindow) ELSE LowMin(df, DayWindow)

\* C7: r = max(selected_high - selected_low, epsilon): never below epsilon,
\* also for a positive difference smaller than epsilon.  (r is read off
\* the levels: breakout_strong - danger = 0.618 r.)
C7_RangeFloor ==
    "dynamic_levels" \in ran =>
        levels.breakout_strong - levels.danger
            = 618 * Max(SelectedHigh - SelectedLow, Epsilon)

\* the five levels are low + 0.118 r, 0.236 r, 0.382 r, 0.618 r and low,
\* for a range r > 0
Anchored(lv, low) ==
    /\ lv.danger = low * 1000
    /\ \E r \in 1..(lv.breakout_strong - lv.danger) :
          /\ lv.breakdown_strong = low * 1000 + 118 * r
          /\ lv.breakdown_weak = low * 1000 + 236 * r
          /\ lv.breakout_weak = low * 1000 + 382 * r
          /\ lv.breakout_strong = low * 1000 + 618 * r

\* C8: all five levels are anchored to the selected low with the fixed
\* fractions of r, in dynamic_levels and in compute_dynamic_levels.
C8_LevelsAnchoredToLow ==
    /\ "dynamic_levels" \in ran => Anchored(levels, SelectedLow)
    /\ ("compute_dynamic_levels" \in ran /\ AllPositive) =>
          Anchored(xrp_levels, CloseMin(df, DayWindow))

\* every trigger whose condition holds, in the fixed order
AllTriggers(p, lv) ==
    (IF p * 1000 > lv.breakout_weak THEN << "weak bullish breakout" >> ELSE << >>)
    \o (IF p * 1000 > lv.breakout_strong THEN << "strong bullish breakout" >> ELSE << >>)
    \o (IF p * 1000 < lv.breakdown_weak THEN << "weak bearish breakdown" >> ELSE << >>)
    \o (IF p * 1000 < lv.breakdown_strong THEN << "strong bearish breakdown" >> ELSE << >>)
    \o (IF p * 1000 < lv.danger THEN << "danger" >> ELSE << >>)

TriggerName(t) ==
    CASE t \in {"Bullish breakout (weak)", "Bullish Breakout (Weak)"} -> "weak bullish breakout"
      [] t \in {"Bullish breakout (strong)", "Strong Bullish Breakout"} -> "strong bullish breakout"
      [] t \in {"Bearish breakdown (weak)", "Bearish Breakdown (Weak)"} -> "weak bearish breakdown"
      [] t \in {"Bearish breakdown (strong)", "Strong Bearish Breakdown"} -> "strong bearish breakdown"
      [] OTHER -> "danger"

\* what each script reports, as a list of trigger names
XrpReported == [k \in 1..Len(flips) |-> TriggerName(flips[k])]
CombinedReported == IF triggers = "Stable" THEN << >> ELSE << TriggerName(triggers) >>

\* C9: the reported triggers are all the triggers whose condition holds,
\* in the order weak breakout, strong breakout, weak breakdown, strong
\* breakdown, danger: the conditions are independent (above breakout_strong
\* both bullish triggers are reported), in compose_and_send_report and in
\* flips_triggers.
C9_AllTriggersReported ==
    AllPositive =>
        /\ "compute_dynamic_levels" \in ran => XrpReported = AllTriggers(price, xrp_levels)
        /\ "dynamic_levels" \in ran => CombinedReported = AllTriggers(price, levels)

Rank(t) ==
    CASE t = "Danger" -> 3
      [] t = "Strong Caution" -> 2
      [] t = "Weak Caution" -> 1
      [] OTHER -> 0

\* raising vol_ratio, all other inputs fixed, never lowers the tier
VolRatioMonotone ==
    \A v \in VolRatioInputs :
        (v.kind = "num" /\ vol_ratio.kind = "num" /\ v.n * vol_ratio.d >= vol_ratio.n * v.d) =>
            Rank(caution_level(price, v, levels, price_change(price, prev_close), bb_width))
                >= Rank(caution)

\* C10 as stated: the tier is decided by vol_ratio and the price against
\* the levels alone: Danger for vol_ratio >= 1.5 or price < danger, else
\* Strong for vol_ratio >= 1.3 or price > breakout_strong, else Weak for
\* vol_ratio >= 1.15, else Safe.
C10_TierFromVolumeAndPrice ==
    ("dynamic_levels" \in ran /\ AllPositive) =>
        /\ caution =
              (IF FGeHundredths(vol_ratio, 150) \/ price * 1000 < levels.danger
               THEN "Danger"
               ELSE IF FGeHundredths(vol_ratio, 130) \/ price * 1000 > levels.breakout_strong
               THEN "Strong Caution"
               ELSE IF FGeHundredths(vol_ratio, 115) THEN "Weak Caution"
               ELSE "Safe")
        /\ VolRatioMonotone

\* the tiers whose condition holds, with the 1h price change and the
\* Bollinger width among the conditions
TiersReached ==
    LET pc == price_change(price, prev_close)
    IN {0}
       \cup (IF FGeHundredths(vol_ratio, 115) \/ FAbsGe(pc, 2) THEN {1} ELSE {})
       \cup (IF FGeHundredths(vol_ratio, 130) \/ price * 1000 > levels.breakout_strong
                \/ FAbsGe(pc, 3) THEN {2} ELSE {})
       \cup (IF FGeHundredths(vol_ratio, 150) \/ price * 1000 < levels.danger
                \/ FAbsGe(pc, 5) \/ bb_width > 50 THEN {3} ELSE {})

\* C10 (amended): caution_level returns the most severe tier whose
\* condition holds, the conditions being: Danger for vol_ratio >= 1.5,
\* price < danger, |price_change_1h| >= 5 or bb_width > 0.05; Strong for
\* vol_ratio >= 1.3, price > breakout_strong or |price_change_1h| >= 3;
\* Weak for vol_ratio >= 1.15 or |price_change_1h| >= 2; Safe otherwise.
\* Raising vol_ratio never lowers the tier.
C10_MostSevereTier ==
    "dynamic_levels" \in ran =>
        /\ Rank(caution) = MaxOf(TiersReached)
        /\ caution \in {"Danger", "Strong Caution", "Weak Caution", "Safe"}
        /\ VolRatioMonotone

\* C10 witness: the Strong and the Weak volume conditions both hold, no
\* Danger condition does, and Strong is returned
C10_Witness ==
    /\ "dynamic_levels" \in ran
    /\ FGeHundredths(vol_ratio, 130)
    /\ TiersReached = {0, 1, 2}
    /\ price * 1000 <= levels.breakout_strong
    /\ ~FAbsGe(price_change(price, prev_close), 2)
    /\ caution = "Strong Caution"

----------------------------------------------------------------------------
(* Claims about the market structure, checked under SpecStructure *)

\* the trend a label names
Trend(label) ==
    IF label \in {"Bullish BOS", "Bullish CHOCH", "Bullish Structure"} THEN "Bullish"
    ELSE IF label \in {"Bearish BOS", "Bearish CHOCH", "Bearish Structure"} THEN "Bearish"
    ELSE IF label = "Ranging Structure" THEN "Ranging"
    ELSE "InsufficientData"

LastSwings == TailN(smc.swings, 3)
ThreeSwings == ~smc.fails /\ Len(smc.swings) >= 3

\* C11: with 3 swings of each kind the label is Bullish iff the last 3 swing
\* highs and the last 3 swing lows are strictly increasing, Bearish iff both
\* are strictly decreasing, Ranging otherwise; a BOS or CHOCH flag on the
\* latest candle does not change the label.
C11_LabelFromSwingsOnly ==
    ("compute_market_structure" \in ran /\ ThreeSwings) =>
        /\ Trend(market_struct) = "Bullish"
              <=> (Rising(LastSwings, "high") /\ Rising(LastSwings, "low"))
        /\ Trend(market_struct) = "Bearish"
              <=> (Falling(LastSwings, "high") /\ Falling(LastSwings, "low"))
        /\ Trend(market_struct) \in {"Bullish", "Bearish", "Ranging"}

\* C12: compute_market_structure always returns a label; with fewer than 3
\* swings, or when a step of the computation fails, the label is the one
\* insufficient-data sentinel (the same value in both cases), never a trend.
C12_SingleSentinel ==
    "compute_market_structure" \in ran =>
        /\ market_struct # "None"
        /\ (smc.fails \/ Len(smc.swings) < 3) => market_struct = "Unavailable"

----------------------------------------------------------------------------
(* Claims about the local-extrema scan, checked under SpecScan *)

Recorded == {lows_idx[k] : k \in 1..Len(lows_idx)} \cup {highs_idx[k] : k \in 1..Len(highs_idx)}

\* every recorded index lies in [window, len-1-window], and a series
\* shorter than 2*window+1 records nothing
ScanInsideWindow ==
    /\ \A j \in Recorded : ScanWindow <= j /\ j <= Len(df) - 1 - ScanWindow
    /\ Len(df) < 2 * ScanWindow + 1 => Recorded = {}

\* C13 (as claimed): the scan of detect_rsi_divergence, lows and highs,
\* never records an index within `window` of either end, records nothing
\* for a series shorter than 2*window+1, and a series of exactly
\* 2*window+1 = 7 candles is still evaluated.
C13_ScanBoundsAndSevenEvaluated ==
    "detect_rsi_divergence" \in ran =>
        /\ ScanInsideWindow
        /\ Len(df) = 2 * ScanWindow + 1 => "lows_scan" \in ran

\* C13 (amended): the same bounds; a series of fewer than 8 candles, the
\* 7-candle one included, is not scanned and yields no divergence; a
\* series of 8 or more has its lows scanned.
C13_ScanBoundsFromEightCandles ==
    "detect_rsi_divergence" \in ran =>
        /\ ScanInsideWindow
        /\ Len(df) < MinDivergenceCandles =>
              /\ "lows_scan" \notin ran /\ "highs_scan" \notin ran
              /\ div = "None"
        /\ Len(df) >= MinDivergenceCandles => "lows_scan" \in ran

C13_Witness ==
    /\ "highs_scan" \in ran
    /\ Len(lows_idx) >= 2 /\ Len(highs_idx) >= 2
    /\ lows_idx[1] = ScanWindow
    /\ highs_idx[Len(highs_idx)] = Len(df) - 1 - ScanWindow

----------------------------------------------------------------------------
(* Claims about whole passes, checked under SpecPass *)

\* C14: on every non-empty candle series, however short, a pass completes
\* without raising and produces a report with clamped scores:
\* xrp_report.compose_and_send_report on fewer than 3 candles, and the
\* combined main() on fewer than 300.
C14_ShortSeriesStillReported ==
    outcome # "pending" =>
        /\ outcome = "report"
        /\ script = "xrp_report" => bullish \in 0..100 /\ bearish \in 0..100
        /\ script = "combined" =>
              /\ RatGe(bull, 0) /\ RatLe(bull, 100)
              /\ RatGe(bear, 0) /\ RatLe(bear, 100)

----------------------------------------------------------------------------
(* Claims about the history file, checked under SpecHistory *)

TimeOf(r) == IF script = "combined" THEN r.open_time ELSE r.timestamp
TimesOf(rows) == {TimeOf(rows[k]) : k \in 1..Len(rows)}
NoDuplicateTimes(rows) == Cardinality(TimesOf(rows)) = Len(rows)
StrictlyIncreasing(rows) ==
    \A k \in 1..(Len(rows) - 1) : TimeOf(rows[k]) < TimeOf(rows[k + 1])

\* C15: after any sequence of runs the persisted history holds no two rows
\* with the same timestamp, and the series combined main() hands to the
\* analysis is strictly increasing in open_time, whatever the overlap of
\* the stored history and the fetched batch.
C15_HistoryDedupedAndSorted ==
    /\ NoDuplicateTimes(csv)
    /\ script = "combined" => StrictlyIncreasing(series)

\* a run of combined main() whose fetch overlapped the stored history and
\* whose merged series, longer than the fetch, went to the analysis
C15_Witness ==
    /\ script = "combined" /\ runs >= 2
    /\ TimesOf(stored) \cap TimesOf(fetched) # {}
    /\ outcome = "report" /\ Len(series) > Len(fetched)

\* C16: over successive runs of combined main() the history only grows:
\* every open_time in the file before a run is in it after the run, also
\* when loading the file fails.
C16_HistoryNeverShrinks ==
    (script = "combined" /\ runs >= 1) => TimesOf(stored) \subseteq TimesOf(csv)

\* C17: a stored candle is immutable: when a fetch returns a stored
\* timestamp with other values the stored row is kept (keep-first), in
\* combined main() and xrp_report.update_history_csv alike; no run changes
\* the values of a stored timestamp.
C17_StoredRowsImmutable ==
    runs >= 1 =>
        \A j \in 1..Len(stored) : \A k \in 1..Len(csv) :
            TimeOf(csv[k]) = TimeOf(stored[j]) => csv[k] = stored[j]

----------------------------------------------------------------------------
(* Claims about send_batched, checked under SpecBatch *)

\* C18: every chunk send_batched passes to send_raw is at most
\* DISCORD_CHUNK_LIMIT (1800) characters long, for every list of messages,
\* also one with a single message longer than the limit.
C18_ChunksWithinLimit ==
    "send_batched" \in ran =>
        \A k \in 1..Len(sent) : sent[k].len <= DISCORD_CHUNK_LIMIT

----------------------------------------------------------------------------
(* Claims about a run of crypto-intel.py, checked under SpecIntel *)

\* C19: the largest whale transfer reported is the maximum amount_usd over
\* the qualifying transfers of all chain feeds: once the loop is through,
\* no transfer that meets the threshold is larger than biggest_transfer,
\* also when a feed lists more than 5 qualifying transfers in any order.
C19_BiggestIsMaximum ==
    (section \in {"whale", "crashed"} /\ chain > Len(Chains)) =>
        \A amt \in qualifying : amt <= biggest_transfer.amount

\* C20: a failure inside a section is absorbed and the run goes on through
\* every later section: every execution ends with send_batched called on
\* the header, the collected messages and the footer, and with the whale
\* section's result delivered to Discord.
C20_RunReachesFinalAssembly ==
    section \in {"done", "crashed"} =>
        /\ section = "done"
        /\ "send_batched" \in ran
        /\ \E k \in 1..Len(sent) : \E p \in 1..Len(sent[k].parts) :
              sent[k].parts[p] \in {"whale", "whale failed"}

\* the message ids of the chunks sent, in call order
RECURSIVE PartsOf(_)
PartsOf(chunks) == IF chunks = << >> THEN << >> ELSE Head(chunks).parts \o PartsOf(Tail(chunks))
RECURSIVE LenOf(_)
LenOf(chunks) == IF chunks = << >> THEN 0 ELSE Head(chunks).len + LenOf(Tail(chunks))
\* the length of messages 1..k, each followed by two newlines
RECURSIVE InputLen(_)
InputLen(k) == IF k = 0 THEN 0 ELSE final_messages[k].len + 2 + InputLen(k - 1)
InputIds == [k \in 1..Len(final_messages) |-> k]

\* C21 (as claimed): send_batched delivers every message exactly once and in
\* input order: the chunks passed to send_raw, concatenated in call order,
\* are the input messages, each followed by two newlines; none is dropped,
\* duplicated, reordered or split.
C21_EveryMessageDelivered ==
    "send_batched" \in ran =>
        /\ PartsOf(sent) = InputIds
        /\ LenOf(sent) = InputLen(Len(final_messages))

\* C21 (amended): the chunks sent, concatenated, are a prefix of the input
\* messages, each followed by two newlines, in input order and unsplit; the
\* messages after that prefix are all blank (the last chunk is not sent when
\* it holds only whitespace); a message with text is delivered exactly once.
C21_MessagesWithTextDelivered ==
    "send_batched" \in ran =>
        LET delivered == PartsOf(sent)
        IN /\ Len(delivered) <= Len(final_messages)
           /\ delivered = SubSeq(InputIds, 1, Len(delivered))
           /\ LenOf(sent) = InputLen(Len(delivered))
           /\ \A k \in (Len(delivered) + 1)..Len(final_messages) : ~final_messages[k].text

\* a list delivered in more than one chunk, with a blank message left unsent
C21_Witness ==
    /\ "send_batched" \in ran
    /\ Len(sent) >= 2
    /\ Len(PartsOf(sent)) >= 2
    /\ Len(PartsOf(sent)) < Len(final_messages)

\* C22: send_batched never calls send_raw with an empty chunk: for every
\* list, also one whose first message alone exceeds DISCORD_CHUNK_LIMIT - 2
\* characters, each chunk sent holds at least one message.
C22_NoEmptyChunkSent ==
    "send_batched" \in ran =>
        \A k \in 1..Len(sent) : sent[k].parts # << >> /\ sent[k].len > 0

----------------------------------------------------------------------------
(* Claims about the triggers, checked under SpecLevels *)

\* C23: in xrp_report.compose_and_send_report the trigger list is empty for
\* every series with positive prices: the levels come from the trailing 24
\* closes, which include the injected price, so price <= recent_high <
\* breakout_weak and price >= recent_low > breakdown_weak.
C23_NoTriggerReachable ==
    ("compute_dynamic_levels" \in ran /\ AllPositive) =>
        /\ price <= xrp_levels.recent_high
        /\ xrp_levels.recent_high * 1000 < xrp_levels.breakout_weak
        /\ price >= xrp_levels.recent_low
        /\ xrp_levels.recent_low * 1000 > xrp_levels.breakdown_weak
        /\ flips = << >>

\* C23: the price is the high of the window and more than 2% above every
\* earlier close
C23_Witness ==
    /\ "compute_dynamic_levels" \in ran
    /\ AllPositive
    /\ Len(df) >= DayWindow
    /\ \A k \in 1..(Len(df) - 1) : df[k].close * 1020 < price * 1000
    /\ xrp_levels.recent_high = price
    /\ flips = << >>

(* Claims about flips_triggers, checked under SpecTriggers *)

\* C24: flips_triggers never returns the Danger Zone trigger: whenever
\* price < danger also price < breakdown_strong, so the strong bearish
\* breakdown is the value returned; the function returns one of the four
\* other triggers, and "Stable" exactly when no trigger condition holds.
C24_DangerZoneNeverReturned ==
    "flips_triggers" \in ran =>
        /\ triggers # "Danger Zone"
        /\ price * 1000 < levels.danger =>
              /\ price * 1000 < levels.breakdown_strong
              /\ triggers = "Strong Bearish Breakdown"
        /\ triggers \in {"Strong Bullish Breakout", "Bullish Breakout (Weak)",
                          "Strong Bearish Breakdown", "Bearish Breakdown (Weak)",
                          "Stable"}
        /\ triggers = "Stable" <=> AllTriggers(price, levels) = << >>

\* C24: flips_triggers was called with a price below the danger level
C24_Witness ==
    /\ "flips_triggers" \in ran
    /\ price * 1000 < levels.danger
    /\ triggers = "Strong Bearish Breakdown"

(* A claim about the two bull probabilities, checked under SpecScore *)

\* C27: for the same candles in the same run the bullish probability of the
\* X teaser (build_x_teaser) equals the bullish probability of the Discord
\* report (build_discord_message), for every combination of indicator
\* signals, the RSI and MACD divergence signals included.
C27_TeaserBullEqualsDiscordBull ==
    "x_teaser_bull" \in ran => RatEq(teaser_bull, bull)

----------------------------------------------------------------------------
(* Claims about the order of main(), checked under SpecMain *)

Occurred(e) == \E k \in 1..Len(events) : events[k] = e
Count(e) == Cardinality({k \in 1..Len(events) : events[k] = e})
\* every occurrence of b comes after an occurrence of a
Precedes(a, b) ==
    \A k \in 1..Len(events) : events[k] = b => \E j \in 1..(k - 1) : events[j] = a

\* C25: in combined main the merged history is written to the CSV file
\* before the data-sufficiency check; a Discord report and an X post are
\* attempted only when the merged history has at least 300 candles; the
\* Discord send precedes the X post; an exception inside send_discord does
\* not prevent the X post from being attempted.
C25_WriteCheckDiscordThenX ==
    script = "combined" =>
        /\ Precedes("to_csv", "check")
        /\ Occurred("to_csv") =>
              series = merge_history(old_rows, fetched) /\ csv = series
        /\ (at \in {"check", "discord", "x"} \/ (at = "done" /\ "histohour" \notin failing)) =>
              Occurred("to_csv")
        /\ (at \in {"discord", "x"} \/ (at = "done" /\ "histohour" \notin failing)) =>
              Occurred("check")
        /\ (Occurred("send_discord") \/ Occurred("post_to_x")) =>
              Len(series) >= MinReportCandles /\ Precedes("check", "send_discord")
        /\ Precedes("send_discord", "post_to_x")
        /\ (at = "done" /\ Occurred("send_discord")) => Occurred("post_to_x")
        /\ (at = "done" /\ Occurred("check") /\ Len(series) >= MinReportCandles) =>
              Occurred("send_discord")

\* C25: a finished run whose Discord delivery failed, on a history that is
\* long enough only after the merge with the stored rows
C25_Witness ==
    /\ script = "combined"
    /\ at = "done"
    /\ "discord" \in failing
    /\ Len(fetched) < MinReportCandles
    /\ Len(series) >= MinReportCandles
    /\ events = << "to_csv", "check", "send_discord", "post_to_x" >>

FetchFailed == failing \cap {"market_chart", "empty_payload"} # {}

\* C26: in xrp_report.main a failed or empty price-history fetch ends the
\* run as an abort, before any history-file write and any Discord send; a
\* failed live-price fetch falls back to the last hourly close; a failure
\* while updating the history CSV does not prevent the report from being
\* composed and sent.
C26_AbortFallbackAndGuardedHistory ==
    script = "xrp_report" =>
        /\ (FetchFailed /\ at # "start") =>
              /\ at = "done" /\ outcome = "aborted"
              /\ events = << "abort" >>
              /\ csv = stored
        /\ (outcome = "aborted" \/ Occurred("abort")) => FetchFailed
        /\ (~FetchFailed /\ "simple_price" \in failing /\ at \in {"history", "compose", "done"}) =>
              /\ price = fetched[Len(fetched)].close
              /\ df = fetched
        /\ (~FetchFailed /\ at \in {"history", "compose", "done"}) =>
              df[Len(df)].close = price
        /\ (~FetchFailed /\ "history_csv" \in failing /\ at \in {"compose", "done"}) =>
              /\ csv = stored /\ ~Occurred("to_csv")
              /\ at = "done" => Occurred("compose_and_send_report")
              /\ (at = "done" /\ Len(df) >= MinConfirmCandles) =>
                    /\ outcome = "report"
                    /\ events = << "compose_and_send_report", "send_discord" >>

\* C26: a finished run in which the live-price fetch and the history update
\* both failed, and the report was sent at the last hourly close
C26_Witness ==
    /\ script = "xrp_report"
    /\ at = "done"
    /\ {"simple_price", "history_csv"} \subseteq failing
    /\ outcome = "report"
    /\ price = fetched[Len(fetched)].close
    /\ events = << "compose_and_send_report", "send_discord" >>

====
